---------------------------- MODULE Spec2Model ----------------------------
(***************************************************************************)
(* A model of the parsing-and-aggregation pipeline of datastage-excel:     *)
(* parseAscFilesFromFolders / parseAscFiles / createCombinedIdentifier     *)
(* (src/unnamed/part_002), generateExcel (src/unnamed/part_004),           *)
(* extractAscFromZip (src/unnamed/part_001) and the App's                  *)
(* handleFileAccepted (src/src/App.tsx).                                   *)
(*                                                                         *)
(* JavaScript strings are TLA+ strings (TLC's Len, SubSeq, \o, Head and    *)
(* Tail work on them); a character is a string of length one.  A JS Map    *)
(* is a sequence of <<key, value>> pairs in insertion order; a JS object   *)
(* is a sequence of <<key, value>> pairs in property order.                *)
(***************************************************************************)
EXTENDS Integers, Sequences, FiniteSets, TLC

VARIABLES
    folderContents,   \* the argument of parseAscFilesFromFolders
    allFileContents,  \* the flattened Map of parseAscFilesFromFolders
    fileIdx,          \* position of parseAscFiles' for-loop over the files
    sectionMap,       \* parseAscFiles' sectionMap
    parseError,       \* the error field of the returned ParsedData
    pc,               \* where the pipeline is
    orderedSections,  \* generateExcel's orderedSections
    sheetIdx,         \* position of generateExcel's for-loop over the sections
    workbook,         \* the workbook being built: a sequence of sheets
    outcome,          \* what generateExcel handed to its caller
    zipFile,          \* the uploaded ZIP: its entries in the order JSZip lists them
    pendingReads,     \* the reads of extractAscFromZip that have not completed
    mainFolderFiles,  \* extractAscFromZip's mainFolderFiles
    extractedFolders, \* extractAscFromZip's extractedFolders
    zipFileContents,  \* the Map extractAscFromZip returns (its fileContents)
    isProcessing,     \* the App's isProcessing
    error,            \* the App's error, "" for null
    successMessage,   \* the App's successMessage, "" for null
    downloadStarted,  \* downloadExcel has been called in this run
    onErrorCalled     \* extractAscFromZip has called onError in this run

\* the state of extractAscFromZip
zipVars == <<zipFile, pendingReads, mainFolderFiles, extractedFolders,
             zipFileContents>>

\* the state of the App
appVars == <<isProcessing, error, successMessage, downloadStarted, onErrorCalled>>

vars == <<folderContents, allFileContents, fileIdx, sectionMap, parseError,
          pc, orderedSections, sheetIdx, workbook, outcome,
          zipFile, pendingReads, mainFolderFiles, extractedFolders,
          zipFileContents,
          isProcessing, error, successMessage, downloadStarted, onErrorCalled>>

(***************************************************************************)
(* Strings                                                                 *)
(***************************************************************************)
Digits == {"0", "1", "2", "3", "4", "5", "6", "7", "8", "9"}

UpperCase == "ABCDEFGHIJKLMNOPQRSTUVWXYZ"

LowerCase == "abcdefghijklmnopqrstuvwxyz"

WhiteSpace == {" ", "\t", "\n", "\r"}

charAt(s, i) == SubSeq(s, i, i)

Last(s) == charAt(s, Len(s))

Min(S) == CHOOSE x \in S : \A y \in S : x <= y

\* String.prototype.indexOf, 1-based; 0 when pat does not occur
indexOf(s, pat) ==
    LET P == {i \in 1..(Len(s) - Len(pat) + 1) : SubSeq(s, i, i + Len(pat) - 1) = pat}
    IN  IF P = {} THEN 0 ELSE Min(P)

endsWith(s, suffix) ==
    /\ Len(s) >= Len(suffix)
    /\ SubSeq(s, Len(s) - Len(suffix) + 1, Len(s)) = suffix

\* String.prototype.substring(from, to) with 0-based, end-exclusive offsets
substring(s, from, to) ==
    LET t == IF to > Len(s) THEN Len(s) ELSE to
    IN  SubSeq(s, from + 1, t)

RECURSIVE split(_, _)
\* String.prototype.split with a non-empty separator
split(s, sep) ==
    LET i == indexOf(s, sep)
    IN  IF i = 0 THEN <<s>>
        ELSE <<SubSeq(s, 1, i - 1)>> \o split(SubSeq(s, i + Len(sep), Len(s)), sep)

RECURSIVE join(_, _)
\* Array.prototype.join
join(parts, sep) ==
    IF Len(parts) = 0 THEN ""
    ELSE IF Len(parts) = 1 THEN parts[1]
    ELSE parts[1] \o sep \o join(Tail(parts), sep)

RECURSIVE trimStart(_)
trimStart(s) == IF s # "" /\ Head(s) \in WhiteSpace THEN trimStart(Tail(s)) ELSE s

RECURSIVE trimEnd(_)
trimEnd(s) ==
    IF s # "" /\ Last(s) \in WhiteSpace THEN trimEnd(SubSeq(s, 1, Len(s) - 1)) ELSE s

\* String.prototype.trim
trim(s) == trimEnd(trimStart(s))

lowerChar(c) ==
    LET i == indexOf(UpperCase, c) IN IF i = 0 THEN c ELSE charAt(LowerCase, i)

RECURSIVE toLowerCase(_)
toLowerCase(s) == IF s = "" THEN "" ELSE lowerChar(Head(s)) \o toLowerCase(Tail(s))

RECURSIVE ToNat(_)
\* the number a string of digits denotes
ToNat(s) ==
    IF s = "" THEN 0
    ELSE 10 * ToNat(SubSeq(s, 1, Len(s) - 1))
         + (CHOOSE d \in 0..9 : charAt("0123456789", d + 1) = Last(s))

AllDigits(s) == \A i \in 1..Len(s) : charAt(s, i) \in Digits

(***************************************************************************)
(* JS Map: insertion-ordered, set() on an existing key keeps its place     *)
(***************************************************************************)
MapKeys(m) == [i \in 1..Len(m) |-> m[i][1]]

MapHas(m, k) == \E i \in 1..Len(m) : m[i][1] = k

MapGet(m, k) == m[CHOOSE i \in 1..Len(m) : m[i][1] = k][2]

MapSet(m, k, v) ==
    IF MapHas(m, k)
    THEN [i \in 1..Len(m) |-> IF m[i][1] = k THEN <<k, v>> ELSE m[i]]
    ELSE Append(m, <<k, v>>)

(***************************************************************************)
(* JS object: own string-keyed properties in property order, which is      *)
(* integer-like keys in ascending numeric order, then the other keys in    *)
(* insertion order                                                         *)
(***************************************************************************)
IsArrayIndex(k) ==
    /\ k # ""
    /\ AllDigits(k)
    /\ (Head(k) = "0" => Len(k) = 1)

ObjKeys(o) == [i \in 1..Len(o) |-> o[i][1]]

ObjHas(o, k) == \E i \in 1..Len(o) : o[i][1] = k

\* o[k], with the empty string standing for undefined (both are falsy)
ObjGet(o, k) == IF ObjHas(o, k) THEN o[CHOOSE i \in 1..Len(o) : o[i][1] = k][2] ELSE ""

ObjSet(o, k, v) ==
    IF ObjHas(o, k)
    THEN [i \in 1..Len(o) |-> IF o[i][1] = k THEN <<k, v>> ELSE o[i]]
    ELSE IF IsArrayIndex(k)
    THEN LET n == Cardinality({i \in 1..Len(o) :
                        IsArrayIndex(o[i][1]) /\ ToNat(o[i][1]) < ToNat(k)})
         IN  SubSeq(o, 1, n) \o <<<<k, v>>>> \o SubSeq(o, n + 1, Len(o))
    ELSE Append(o, <<k, v>>)

RECURSIVE ObjAssign(_, _)
\* { ...target, ...source }: every property of source set on target, in order
ObjAssign(target, source) ==
    IF Len(source) = 0 THEN target
    ELSE ObjAssign(ObjSet(target, source[1][1], source[1][2]), Tail(source))

(***************************************************************************)
(* Papa.parse(input, {delimiter: '|', header: true, skipEmptyLines: true,  *)
(* transformHeader: trim, transform: trim}) on input without quote         *)
(* characters                                                              *)
(***************************************************************************)
\* Papa's guessLineEndings: the newline the input is split on
guessLineEndings(input) ==
    LET r == split(input, "\r")
        n == split(input, "\n")
        nAppearsFirst == Len(n) > 1 /\ Len(n[1]) < Len(r[1])
        numWithN == Cardinality({i \in 1..Len(r) : r[i] # "" /\ Head(r[i]) = "\n"})
    IN  IF Len(r) = 1 \/ nAppearsFirst THEN "\n"
        ELSE IF 2 * numWithN >= Len(r) THEN "\r\n" ELSE "\r"

\* skipEmptyLines: true drops the rows that are one empty field
testEmptyLine(row) == Len(row) = 1 /\ row[1] = ""

RECURSIVE nonEmptyLines(_)
nonEmptyLines(rows) ==
    IF Len(rows) = 0 THEN <<>>
    ELSE IF testEmptyLine(rows[1]) THEN nonEmptyLines(Tail(rows))
    ELSE <<rows[1]>> \o nonEmptyLines(Tail(rows))

RECURSIVE processRow(_, _, _, _)
\* one data row as an object: field j goes under header j, with its value
\* trimmed; fields beyond the header are collected under __parsed_extra
\* (an array, kept here by its String() form)
processRow(fields, rowSource, j, row) ==
    IF j > Len(rowSource) THEN row
    ELSE LET value == trim(rowSource[j])
         IN  IF j > Len(fields)
             THEN processRow(fields, rowSource, j + 1,
                      ObjSet(row, "__parsed_extra",
                             IF ObjHas(row, "__parsed_extra")
                             THEN ObjGet(row, "__parsed_extra") \o "," \o value
                             ELSE value))
             ELSE processRow(fields, rowSource, j + 1, ObjSet(row, fields[j], value))

\* parseResult.data: the data rows of the table, the first non-empty line
\* being the header
PapaParse(input) ==
    LET lines  == split(input, guessLineEndings(input))
        raw    == nonEmptyLines([i \in 1..Len(lines) |-> split(lines[i], "|")])
        fields == IF Len(raw) = 0 THEN <<>>
                  ELSE [j \in 1..Len(raw[1]) |-> trim(raw[1][j])]
    IN  IF Len(raw) = 0 THEN <<>>
        ELSE [i \in 1..(Len(raw) - 1) |-> processRow(fields, raw[i + 1], 1, <<>>)]

(***************************************************************************)
(* createCombinedIdentifier                                                *)
(***************************************************************************)
fechaFields == <<"FechaPagoReal", "fechaPagoReal", "FECHA_PAGO_REAL">>

seccionFields == <<"seccionAduanera", "seccion", "aduana", "SECCION", "ADUANA",
                   "SECCION_ADUANERA", "ClaveDoc", "SeccionAd">>

patenteFields == <<"patente", "PATENTE", "Patente">>

pedimentoFields == <<"pedimento", "PEDIMENTO", "Pedimento", "numeroPedimento",
                     "pedimentoNumero", "Pediment">>

RECURSIVE firstTruthy(_, _)
\* row[f1] || row[f2] || ... : the value under the first field that holds a
\* non-empty string, "" when there is none
firstTruthy(row, fields) ==
    IF Len(fields) = 0 THEN ""
    ELSE IF ObjGet(row, fields[1]) # "" THEN ObjGet(row, fields[1])
    ELSE firstTruthy(row, Tail(fields))

\* a year fragment taken from the first two characters
centuryOf(row) ==
    LET fechaPagoReal == firstTruthy(row, fechaFields)
    IN  IF fechaPagoReal # "" /\ Len(fechaPagoReal) >= 4
        THEN substring(fechaPagoReal, 0, 2)
        ELSE ""

\* the two-character year fragment
yearOf(row) ==
    LET fechaPagoReal == firstTruthy(row, fechaFields)
    IN  IF fechaPagoReal # "" /\ Len(fechaPagoReal) >= 4
        THEN substring(fechaPagoReal, 2, 4)
        ELSE ""

\* for (const field of fields) if (row[field]) { x = row[field].trim(); break }
firstField(row, fields) == trim(firstTruthy(row, fields))

RECURSIVE nonEmptyParts(_)
\* if (part) parts.push(part), in order
nonEmptyParts(parts) ==
    IF Len(parts) = 0 THEN <<>>
    ELSE IF parts[1] # "" THEN <<parts[1]>> \o nonEmptyParts(Tail(parts))
    ELSE nonEmptyParts(Tail(parts))

\* a join that keeps the absent parts
joinAllParts(parts) == join(parts, "-")

joinParts(parts) == join(nonEmptyParts(parts), "-")

createCombinedIdentifier(row) ==
    joinParts(<<yearOf(row), firstField(row, seccionFields),
                firstField(row, patenteFields), firstField(row, pedimentoFields)>>)

(***************************************************************************)
(* parseAscFilesFromFolders and parseAscFiles                              *)
(***************************************************************************)
validSectionCodes ==
    <<"501", "502", "503", "504", "505", "506", "507", "508", "509", "510",
      "511", "512", "520", "701", "702",
      "551", "552", "553", "554", "555", "556", "557", "558">>

possibleSectionColumns ==
    <<"section", "sectioncode", "section_code", "code",
      "seccion", "seccionaduanera", "seccion_aduanera">>

includes(array, x) == \E i \in 1..Len(array) : array[i] = x

NoValidData == "No valid data found in any of the files."

\* a flattening that keys each file by its bare name
unprefixedFilename(folderName, filename) == filename

\* `${folderName}/${filename}`
prefixedFilename(folderName, filename) == folderName \o "/" \o filename

RECURSIVE setAll(_, _, _)
\* the inner loop of parseAscFilesFromFolders over one folder's files
setAll(all, folderName, fileContents) ==
    IF Len(fileContents) = 0 THEN all
    ELSE setAll(MapSet(all, prefixedFilename(folderName, fileContents[1][1]),
                       fileContents[1][2]),
                folderName, Tail(fileContents))

RECURSIVE flatten(_, _)
\* the outer loop of parseAscFilesFromFolders over the folders
flatten(all, folders) ==
    IF Len(folders) = 0 THEN all
    ELSE flatten(setAll(all, folders[1][1], folders[1][2]), Tail(folders))

\* filename.match(/_(\d{3})\.(asc|ASC)$/): the three digits, "" for no match
filenameSectionOf(filename) ==
    LET n == Len(filename)
    IN  IF /\ n >= 8
           /\ charAt(filename, n - 7) = "_"
           /\ AllDigits(SubSeq(filename, n - 6, n - 4))
           /\ charAt(filename, n - 3) = "."
           /\ SubSeq(filename, n - 2, n) \in {"asc", "ASC"}
        THEN SubSeq(filename, n - 6, n - 4)
        ELSE ""

\* line.endsWith('|') ? line.slice(0, -1) : line
stripTrailingPipe(line) ==
    IF endsWith(line, "|") THEN SubSeq(line, 1, Len(line) - 1) ELSE line

cleanContent(content) ==
    LET lines == split(content, "\n")
    IN  join([i \in 1..Len(lines) |-> stripTrailingPipe(lines[i])], "\n")

\* { "No_Pedimento": combinedId, ...row }
enhancedRow(row) ==
    ObjAssign(<<<<"No_Pedimento", createCombinedIdentifier(row)>>>>, row)

\* a registration that starts the list of the code anew each time
resetSection(sm, code) == MapSet(sm, code, <<>>)

\* if (!sectionMap.has(code)) sectionMap.set(code, [])
ensureSection(sm, code) == IF MapHas(sm, code) THEN sm ELSE MapSet(sm, code, <<>>)

\* rows put in front of the records a section already holds
prependRows(sm, code, rows) == MapSet(sm, code, rows \o MapGet(sm, code))

\* sectionMap.get(code).push(...rows)
pushRows(sm, code, rows) == MapSet(sm, code, MapGet(sm, code) \o rows)

RECURSIVE findSectionHeader(_)
\* headers.find(h => h && possibleSectionColumns.includes(h.toLowerCase())),
\* "" for undefined
findSectionHeader(headers) ==
    IF Len(headers) = 0 THEN ""
    ELSE IF headers[1] # "" /\ includes(possibleSectionColumns, toLowerCase(headers[1]))
    THEN headers[1]
    ELSE findSectionHeader(Tail(headers))

RECURSIVE processKnownByColumn(_, _, _)
\* a column resolution that drops the rows of codes outside the allow-list
processKnownByColumn(sm, rows, sectionCodeHeader) ==
    IF Len(rows) = 0 THEN sm
    ELSE LET sectionCode == ObjGet(rows[1], sectionCodeHeader)
         IN  processKnownByColumn(
                 IF ~includes(validSectionCodes, sectionCode) THEN sm
                 ELSE pushRows(ensureSection(sm, sectionCode), sectionCode,
                               <<enhancedRow(rows[1])>>),
                 Tail(rows), sectionCodeHeader)

RECURSIVE processUntilEmpty(_, _, _)
\* a per-row loop that ends at the first row without a section value
processUntilEmpty(sm, rows, sectionCodeHeader) ==
    IF Len(rows) = 0 THEN sm
    ELSE LET sectionCode == ObjGet(rows[1], sectionCodeHeader)
         IN  IF sectionCode = "" THEN sm
             ELSE processUntilEmpty(
                      pushRows(ensureSection(sm, sectionCode), sectionCode,
                               <<enhancedRow(rows[1])>>),
                      Tail(rows), sectionCodeHeader)

RECURSIVE processByColumn(_, _, _)
\* the per-row loop of a file resolved by its section-code column
processByColumn(sm, rows, sectionCodeHeader) ==
    IF Len(rows) = 0 THEN sm
    ELSE LET sectionCode == ObjGet(rows[1], sectionCodeHeader)
         IN  processByColumn(
                 IF sectionCode = "" THEN sm
                 ELSE pushRows(ensureSection(sm, sectionCode), sectionCode,
                               <<enhancedRow(rows[1])>>),
                 Tail(rows), sectionCodeHeader)

\* the file's rows all go under the code of its name
processByFilename(sm, rows, filenameSection) ==
    pushRows(ensureSection(sm, filenameSection), filenameSection,
             [i \in 1..Len(rows) |-> enhancedRow(rows[i])])

\* a file that parsed to no data row
registerEmpty(sm, filenameSection) ==
    IF filenameSection # "" /\ includes(validSectionCodes, filenameSection)
    THEN ensureSection(sm, filenameSection)
    ELSE sm

\* a branch that gives up the sections found so far at a file that names
\* no section
storeRowsOrAbort(sm, rows, filenameSection) ==
    IF filenameSection = ""
    THEN LET sectionCodeHeader == findSectionHeader(ObjKeys(rows[1]))
         IN  IF sectionCodeHeader # ""
             THEN processByColumn(sm, rows, sectionCodeHeader)
             ELSE <<>>
    ELSE processByFilename(sm, rows, filenameSection)

\* a resolution that asks the section column first and the filename second
storeRowsColumnFirst(sm, rows, filenameSection) ==
    LET sectionCodeHeader == findSectionHeader(ObjKeys(rows[1]))
    IN  IF sectionCodeHeader # ""
        THEN processByColumn(sm, rows, sectionCodeHeader)
        ELSE IF filenameSection # ""
             THEN processByFilename(sm, rows, filenameSection)
             ELSE sm

\* the branch on filenameSection for a file with data rows
storeRows(sm, rows, filenameSection) ==
    IF filenameSection = ""
    THEN LET sectionCodeHeader == findSectionHeader(ObjKeys(rows[1]))
         IN  IF sectionCodeHeader # ""
             THEN processByColumn(sm, rows, sectionCodeHeader)
             ELSE sm
    ELSE processByFilename(sm, rows, filenameSection)

\* an iteration whose effect hangs on the moment it runs at, beside the
\* file: every second file to arrive is lost
processFileByArrival(sm, filename, content) ==
    IF fileIdx % 2 = 0 \/ trim(content) = "" THEN sm
    ELSE LET filenameSection == filenameSectionOf(filename)
             rows == PapaParse(cleanContent(content))
         IN  IF Len(rows) = 0 THEN registerEmpty(sm, filenameSection)
             ELSE storeRows(sm, rows, filenameSection)

\* one iteration of parseAscFiles' loop over the files
processFile(sm, filename, content) ==
    IF content = "" \/ trim(content) = "" THEN sm
    ELSE LET filenameSection == filenameSectionOf(filename)
             rows == PapaParse(cleanContent(content))
         IN  IF Len(rows) = 0 THEN registerEmpty(sm, filenameSection)
             ELSE storeRows(sm, rows, filenameSection)

\* a parser that never reports the empty map
noErrorOf(sm) == ""

\* what follows the loop: the error that goes with the returned map
errorOf(sm) == IF Len(sm) = 0 THEN NoValidData ELSE ""

(***************************************************************************)
(* generateExcel                                                           *)
(***************************************************************************)
SECTION_ORDER ==
    <<"501", "502", "503", "504", "505",
      "506", "507", "508", "509", "510",
      "511", "512", "520", "701", "702",
      "551", "552", "553", "554", "555",
      "556", "557", "558",
      "160", "240", "430">>

\* the own properties of the SECTION_NAMES object literal
SECTION_NAMES ==
    <<
      <<"501", "Datos generales">>,
      <<"502", "Transporte de las mercancías">>,
      <<"503", "Guías">>,
      <<"504", "Contenedores">>,
      <<"505", "Facturas">>,
      <<"506", "Fechas del pedimento">>,
      <<"507", "Casos del pedimento">>,
      <<"508", "Cuentas aduaneras de garantía">>,
      <<"509", "Tasas del pedimento">>,
      <<"510", "Contribuciones del pedimento">>,
      <<"511", "Observaciones del pedimento">>,
      <<"512", "Descargos de mercancías">>,
      <<"520", "Destinatarios de la mercancía">>,
      <<"701", "Rectificaciones">>,
      <<"702", "Diferencias de contribuciones">>,
      <<"551", "Partidas">>,
      <<"552", "Mercancías">>,
      <<"553", "Permiso de la partida">>,
      <<"554", "Casos de la partida">>,
      <<"555", "Cuentas aduaneras (partida)">>,
      <<"556", "Tasas de contribuciones (partida)">>,
      <<"557", "Contribuciones de la partida">>,
      <<"558", "Observaciones de la partida">>,
      <<"160", "Sección 160">>,
      <<"240", "Sección 240">>,
      <<"430", "Sección 430">>
    >>

\* the properties every object literal inherits from Object.prototype, with
\* the text each becomes in a template string
ObjectPrototype ==
    <<
      <<"constructor", "function Object() { [native code] }">>,
      <<"toString", "function toString() { [native code] }">>,
      <<"toLocaleString", "function toLocaleString() { [native code] }">>,
      <<"valueOf", "function valueOf() { [native code] }">>,
      <<"hasOwnProperty", "function hasOwnProperty() { [native code] }">>,
      <<"isPrototypeOf", "function isPrototypeOf() { [native code] }">>,
      <<"propertyIsEnumerable", "function propertyIsEnumerable() { [native code] }">>,
      <<"__defineGetter__", "function __defineGetter__() { [native code] }">>,
      <<"__defineSetter__", "function __defineSetter__() { [native code] }">>,
      <<"__lookupGetter__", "function __lookupGetter__() { [native code] }">>,
      <<"__lookupSetter__", "function __lookupSetter__() { [native code] }">>,
      <<"__proto__", "[object Object]">>
    >>

MaxSheetNameLength == 31

IllegalSheetChars == {"[", "]", "*", "?", "/", "\\", ":"}

RECURSIVE replaceIllegal(_)
\* name.replace(/[\[\]\*\?\/\\\:]/g, '_')
replaceIllegal(name) ==
    IF name = "" THEN ""
    ELSE (IF Head(name) \in IllegalSheetChars THEN "_" ELSE Head(name))
         \o replaceIllegal(Tail(name))

\* a sanitizer that replaces the characters and keeps the length
replaceOnly(name) == replaceIllegal(name)

sanitizeSheetName(name) == replaceIllegal(substring(name, 0, MaxSheetNameLength))

\* SECTION_NAMES[sectionCode] || `Section ${sectionCode}`
\* a lookup that falls back to the Spanish label
sectionNameSpanish(sectionCode) ==
    IF ObjHas(SECTION_NAMES, sectionCode) THEN ObjGet(SECTION_NAMES, sectionCode)
    ELSE "Sección " \o sectionCode

sectionNameOf(sectionCode) ==
    IF ObjHas(SECTION_NAMES, sectionCode) THEN ObjGet(SECTION_NAMES, sectionCode)
    ELSE IF ObjHas(ObjectPrototype, sectionCode) THEN ObjGet(ObjectPrototype, sectionCode)
    ELSE "Section " \o sectionCode

getFormattedSheetName(sectionCode) == sectionCode \o " " \o sectionNameOf(sectionCode)

RECURSIVE selectPresent(_, _)
\* for (const code of SECTION_ORDER) if (sectionMap.has(code)) push
selectPresent(order, sm) ==
    IF Len(order) = 0 THEN <<>>
    ELSE IF MapHas(sm, order[1]) THEN <<order[1]>> \o selectPresent(Tail(order), sm)
    ELSE selectPresent(Tail(order), sm)

RECURSIVE addRemaining(_, _)
\* for (const code of availableSections) if (!ordered.includes(code)) push
addRemaining(ordered, available) ==
    IF Len(available) = 0 THEN ordered
    ELSE addRemaining(IF includes(ordered, available[1]) THEN ordered
                      ELSE Append(ordered, available[1]),
                      Tail(available))

\* an ordering that keeps the insertion order of the map
insertionOrder(sm) == MapKeys(sm)

orderSections(sm) == addRemaining(selectPresent(SECTION_ORDER, sm), MapKeys(sm))

\* the array of arrays handed to aoa_to_sheet for one section
sheetData(rows) ==
    IF Len(rows) = 0 THEN <<>>
    ELSE LET headers == ObjKeys(rows[1])
         IN  IF Len(headers) = 0 THEN <<>>
             ELSE <<headers>> \o
                  [i \in 1..Len(rows) |->
                      [j \in 1..Len(headers) |-> ObjGet(rows[i], headers[j])]]

SheetNames(wb) == [i \in 1..Len(wb) |-> wb[i].name]

\* XLSX.utils.book_append_sheet throws on a name the workbook already has,
\* and on a name check_ws_name rejects
appendThrows(wb, name) ==
    \/ includes(SheetNames(wb), name)
    \/ name = ""
    \/ Len(name) > MaxSheetNameLength
    \/ \E i \in 1..Len(name) : charAt(name, i) \in IllegalSheetChars

alreadyExists(name) == "Error: Worksheet with name |" \o name \o "| already exists!"

\* the sheet the per-section catch block builds
errorSheet(sectionCode, sheetError) ==
    [name |-> sanitizeSheetName("Error_" \o sectionCode),
     data |-> <<<<"Error processing this section">>, <<sheetError>>>>]

\* an outer catch block that throws the error on
rethrow(thrown) == [kind |-> "threw", sheets |-> <<>>]

\* an outer catch block whose sheet does not carry the error
catchWithoutText(thrown) ==
    [kind |-> "blob",
     sheets |-> <<[name |-> "Error", data |-> <<<<"Error creating Excel file">>>>]>>]

\* the outer catch block: a fresh workbook with the one sheet "Error",
\* written and returned as a blob
catchAll(thrown) ==
    [kind |-> "blob",
     sheets |-> <<[name |-> "Error",
                   data |-> <<<<"Error creating Excel file">>, <<thrown>>>>]>>]

\* XLSX.write refuses a workbook without sheets
writeThrows(wb) == Len(wb) = 0

NoOutcome == [kind |-> "none", sheets |-> <<>>]

(***************************************************************************)
(* Inputs: what extraction can hand to the parser.  A folder is a Map from *)
(* file name to text; a folder map holds up to MaxFolders of the folders   *)
(* below, under the names extractAscFromZip gives ('main' for the outer    *)
(* ZIP, then one name per nested ZIP).                                     *)
(***************************************************************************)
MaxFolders == 2

PedimentoCodesA ==
    <<
      <<"t_501.asc", "a|b\n501|x">>,
      <<"t_502.asc", "a|b\n502|x">>,
      <<"t_503.asc", "a|b\n503|x">>,
      <<"t_504.asc", "a|b\n504|x">>,
      <<"t_505.asc", "a|b\n505|x">>,
      <<"t_506.asc", "a|b\n506|x">>,
      <<"t_507.asc", "a|b\n507|x">>,
      <<"t_508.asc", "a|b\n508|x">>
    >>

PedimentoCodesB ==
    <<
      <<"t_509.asc", "a|b\n509|x">>,
      <<"t_510.asc", "a|b\n510|x">>,
      <<"t_511.asc", "a|b\n511|x">>,
      <<"t_512.asc", "a|b\n512|x">>,
      <<"t_520.asc", "a|b\n520|x">>,
      <<"t_701.asc", "a|b\n701|x">>,
      <<"t_702.asc", "a|b\n702|x">>
    >>

PartidaCodes ==
    <<
      <<"t_551.asc", "a|b\n551|x">>,
      <<"t_552.asc", "a|b\n552|x">>,
      <<"t_553.asc", "a|b\n553|x">>,
      <<"t_554.asc", "a|b\n554|x">>,
      <<"t_555.asc", "a|b\n555|x">>,
      <<"t_556.asc", "a|b\n556|x">>,
      <<"t_557.asc", "a|b\n557|x">>,
      <<"t_558.asc", "a|b\n558|x">>
    >>

FolderCases ==
    <<
      \* file names that carry the code 501: plain; with trailing pipes and an
      \* upper-case extension; with the fields of the composite identifier
      << <<"x_501.asc", "a|b\n1|2\n3|4">>,
         <<"y_501.ASC", "a|b|\n5|6|\n">>,
         <<"p_501.asc",
           "FechaPagoReal|seccion|patente|pedimento\n2025-03-05 11:58:12|4|3456|0012345">> >>,
      \* files with a header line and no data row, of an unknown and of a
      \* known code, and a file with CRLF line ends
      << <<"z_999.asc", "a|b">>,
         <<"h_502.asc", "a|b\n">>,
         <<"c_506.asc", "a|b|\r\n1|2|\r\n">> >>,
      \* files that give nothing: empty, blank, without section column and
      \* without code in the name (the extension .Asc is not matched)
      << <<"e_503.asc", "">>,
         <<"w_504.asc", " \n">>,
         <<"nosec.asc", "a|b\n1|2">>,
         <<"k_512.Asc", "a\n1">> >>,
      \* section-code columns: a known and an unknown code; rows without
      \* section value; a code in the name beside a column naming other
      \* codes; a section value that names an inherited property
      << <<"data.asc", "code|value\n501|10\n999|20">>,
         <<"d2.asc", "Code|v\n|1\n502|2\n|3">>,
         <<"n_504.asc", "code|v\n505|1\n|2\n777|3">>,
         <<"o.asc", "seccion|v\nconstructor|1\n240|2">> >>,
      \* identifier parts that are absent, short or under other aliases; a
      \* file with a column No_Pedimento of its own; a file without header
      \* line, whose first data line names the columns; rows shorter and
      \* longer than the header
      << <<"i_505.asc",
           "FECHA_PAGO_REAL|ADUANA|Patente|Pediment\n2024|||\n202|47||9\n||8|\n|||\n1999-01-01||0|77">>,
         <<"q_505.asc", "No_Pedimento|patente\nX|3456">>,
         <<"m_507.asc", "507|7|x\n508|8|y">>,
         <<"r_508.asc", "a|b\n1\n1|2|3">> >>,
      \* codes of SECTION_ORDER beyond the 23, and a code in no list
      << <<"k_430.asc", "a\n1">>, <<"k_998.asc", "a\n1">>, <<"k_160.asc", "a\n1">> >>,
      \* section values whose sheet names coincide once sanitized
      << <<"bad.asc", "section|v\na/|1\na:|2\na?|3">> >>,
      \* one file for each of the 23 known codes, over three folders
      PedimentoCodesA,
      PedimentoCodesB,
      PartidaCodes
    >>

\* 'main', 'nested_1', 'nested_2', ...
folderNameOf(i) == IF i = 1 THEN "main" ELSE "nested_" \o charAt("123456789", i - 1)

FolderMaps ==
    UNION { { [i \in 1..n |-> <<folderNameOf(i), FolderCases[f[i]]>>] :
                f \in [1..n -> 1..Len(FolderCases)] } : n \in 1..MaxFolders }

\* two folders of one file each with one data row under its header line,
\* both named for section 501
TwoFolderScenarios ==
    { << <<"folderA", << <<"x_501.asc", x>> >> >>,
         <<"folderB", << <<"y_501.asc", y>> >> >> >> :
        x \in {"a|b\n1|2", "a|b|\n1|2|\n"}, y \in {"a|b\n3|4", "c\n9"} }

\* a file with two of the date columns: a short value before a long one,
\* two long values, an empty value before a long one, a value that is no
\* date, a short value alone
YearFragmentScenarios ==
    { << <<"main",
           << <<"f_501.asc",
                "FechaPagoReal|FECHA_PAGO_REAL|patente\n20|2024-05-05|1\n2023-01-01|1999-01-01|2\n|2022-02-02|3\nabcd||4\n123||5">> >> >> >> }

(***************************************************************************)
(* The pipeline: parseAscFilesFromFolders, then generateExcel when no      *)
(* error came back                                                         *)
(***************************************************************************)
(***************************************************************************)
(* The App's messages                                                      *)
(***************************************************************************)
\* setError("No se pudieron extraer archivos ASC del archivo ZIP. ...")
NoFilesExtracted == "No se pudieron extraer archivos ASC del archivo ZIP."

\* setError('No se encontraron datos validos en los archivos ASC.')
NoSectionsFound == "No se encontraron datos validos en los archivos ASC."

\* 'Error al procesar el archivo: ' + err.message
ProcessingError == "Error al procesar el archivo: "

\* `El archivo Excel "${fileName}.xlsx" ha sido creado con ${n} hojas.`
successMessageOf(n) ==
    "El archivo Excel ha sido creado con " \o ToString(n) \o " hojas."

\* onError of extractAscFromZip when nothing was found
NoAscFilesFound == "No .asc files found in the ZIP file."

\* onError('Error extracting ZIP file: ' + error.message)
ExtractionError == "Error extracting ZIP file: "

Init ==
    /\ folderContents \in FolderMaps \cup TwoFolderScenarios \cup YearFragmentScenarios
    /\ allFileContents = <<>>
    /\ fileIdx = 1
    /\ sectionMap = <<>>
    /\ parseError = ""
    /\ pc = "start"
    /\ orderedSections = <<>>
    /\ sheetIdx = 1
    /\ workbook = <<>>
    /\ outcome = NoOutcome
    /\ zipFile = <<>>
    /\ pendingReads = {}
    /\ mainFolderFiles = <<>>
    /\ extractedFolders = <<>>
    /\ zipFileContents = <<>>
    /\ isProcessing = TRUE
    /\ error = ""
    /\ successMessage = ""
    /\ downloadStarted = FALSE
    /\ onErrorCalled = FALSE

\* parseAscFilesFromFolders up to its call of parseAscFiles
ParseAscFilesFromFolders ==
    /\ pc = "start"
    /\ allFileContents' = flatten(<<>>, folderContents)
    /\ pc' = "files"
    /\ UNCHANGED <<folderContents, fileIdx, sectionMap, parseError,
                   orderedSections, sheetIdx, workbook, outcome>>
    /\ UNCHANGED zipVars
    /\ UNCHANGED appVars

\* one iteration of parseAscFiles' loop
ProcessFile ==
    /\ pc = "files"
    /\ fileIdx <= Len(allFileContents)
    /\ sectionMap' = processFile(sectionMap, allFileContents[fileIdx][1],
                                 allFileContents[fileIdx][2])
    /\ fileIdx' = fileIdx + 1
    /\ UNCHANGED <<folderContents, allFileContents, parseError, pc,
                   orderedSections, sheetIdx, workbook, outcome>>
    /\ UNCHANGED zipVars
    /\ UNCHANGED appVars

\* a return of the parser after which the App goes on whatever it got
ParseReturnUnchecked ==
    /\ pc = "files"
    /\ fileIdx > Len(allFileContents)
    /\ parseError' = errorOf(sectionMap)
    /\ pc' = "parsed"
    /\ UNCHANGED <<folderContents, allFileContents, fileIdx, sectionMap,
                   orderedSections, sheetIdx, workbook, outcome>>
    /\ UNCHANGED zipVars
    /\ UNCHANGED appVars

\* parseAscFiles returns; the App goes on only without an error and with a
\* section, else it shows the error and ends
ParseReturn ==
    /\ pc = "files"
    /\ fileIdx > Len(allFileContents)
    /\ parseError' = errorOf(sectionMap)
    /\ IF errorOf(sectionMap) # ""
       THEN /\ error' = errorOf(sectionMap)
            /\ isProcessing' = FALSE
            /\ pc' = "done"
       ELSE IF Len(sectionMap) = 0
       THEN /\ error' = NoSectionsFound
            /\ isProcessing' = FALSE
            /\ pc' = "done"
       ELSE /\ pc' = "parsed"
            /\ UNCHANGED <<error, isProcessing>>
    /\ UNCHANGED <<folderContents, allFileContents, fileIdx, sectionMap,
                   orderedSections, sheetIdx, workbook, outcome>>
    /\ UNCHANGED zipVars
    /\ UNCHANGED <<successMessage, downloadStarted, onErrorCalled>>

\* generateExcel up to its loop over the sections
GenerateExcel ==
    /\ pc = "parsed"
    /\ orderedSections' = orderSections(sectionMap)
    /\ sheetIdx' = 1
    /\ workbook' = <<>>
    /\ pc' = "sheets"
    /\ UNCHANGED <<folderContents, allFileContents, fileIdx, sectionMap,
                   parseError, outcome>>
    /\ UNCHANGED zipVars
    /\ UNCHANGED appVars

\* one iteration of the loop: the section's sheet is built and appended
AppendSheet ==
    /\ pc = "sheets"
    /\ sheetIdx <= Len(orderedSections)
    /\ LET sectionCode == orderedSections[sheetIdx]
           sheetName == sanitizeSheetName(getFormattedSheetName(sectionCode))
       IN  /\ ~appendThrows(workbook, sheetName)
           /\ workbook' = Append(workbook,
                  [name |-> sheetName,
                   data |-> sheetData(MapGet(sectionMap, sectionCode))])
    /\ sheetIdx' = sheetIdx + 1
    /\ UNCHANGED <<folderContents, allFileContents, fileIdx, sectionMap,
                   parseError, pc, orderedSections, outcome>>
    /\ UNCHANGED zipVars
    /\ UNCHANGED appVars

\* one iteration of the loop: appending the sheet throws, the catch block
\* appends the section's error sheet
AppendErrorSheet ==
    /\ pc = "sheets"
    /\ sheetIdx <= Len(orderedSections)
    /\ LET sectionCode == orderedSections[sheetIdx]
           sheetName == sanitizeSheetName(getFormattedSheetName(sectionCode))
           sheet == errorSheet(sectionCode, alreadyExists(sheetName))
       IN  /\ appendThrows(workbook, sheetName)
           /\ ~appendThrows(workbook, sheet.name)
           /\ workbook' = Append(workbook, sheet)
    /\ sheetIdx' = sheetIdx + 1
    /\ UNCHANGED <<folderContents, allFileContents, fileIdx, sectionMap,
                   parseError, pc, orderedSections, outcome>>
    /\ UNCHANGED zipVars
    /\ UNCHANGED appVars

\* one iteration of the loop: the catch block's own append throws, which
\* ends the loop in generateExcel's outer catch block
SectionCatchThrows ==
    /\ pc = "sheets"
    /\ sheetIdx <= Len(orderedSections)
    /\ LET sectionCode == orderedSections[sheetIdx]
           sheetName == sanitizeSheetName(getFormattedSheetName(sectionCode))
           sheet == errorSheet(sectionCode, alreadyExists(sheetName))
       IN  /\ appendThrows(workbook, sheetName)
           /\ appendThrows(workbook, sheet.name)
           /\ outcome' = catchAll(alreadyExists(sheet.name))
    /\ pc' = "generated"
    /\ UNCHANGED <<folderContents, allFileContents, fileIdx, sectionMap,
                   parseError, orderedSections, sheetIdx, workbook>>
    /\ UNCHANGED zipVars
    /\ UNCHANGED appVars

\* after the loop: XLSX.write and the blob
WriteWorkbook ==
    /\ pc = "sheets"
    /\ sheetIdx > Len(orderedSections)
    /\ outcome' = IF writeThrows(workbook) THEN catchAll("Error: Workbook is empty")
                  ELSE [kind |-> "blob", sheets |-> workbook]
    /\ pc' = "generated"
    /\ UNCHANGED <<folderContents, allFileContents, fileIdx, sectionMap,
                   parseError, orderedSections, sheetIdx, workbook>>
    /\ UNCHANGED zipVars
    /\ UNCHANGED appVars

\* an end of handleFileAccepted that leaves isProcessing as it is
DownloadExcelStillProcessing ==
    /\ pc = "generated"
    /\ downloadStarted' = TRUE
    /\ successMessage' = successMessageOf(Len(sectionMap))
    /\ pc' = "done"
    /\ UNCHANGED <<folderContents, allFileContents, fileIdx, sectionMap,
                   parseError, orderedSections, sheetIdx, workbook, outcome>>
    /\ UNCHANGED zipVars
    /\ UNCHANGED <<isProcessing, error, onErrorCalled>>

\* the rest of handleFileAccepted: downloadExcel and the success message,
\* or the catch block when generateExcel threw; the finally block
DownloadExcel ==
    /\ pc = "generated"
    /\ IF outcome.kind = "threw"
       THEN /\ error' = ProcessingError
            /\ UNCHANGED <<successMessage, downloadStarted>>
       ELSE /\ downloadStarted' = TRUE
            /\ successMessage' = successMessageOf(Len(sectionMap))
            /\ UNCHANGED error
    /\ isProcessing' = FALSE
    /\ pc' = "done"
    /\ UNCHANGED <<folderContents, allFileContents, fileIdx, sectionMap,
                   parseError, orderedSections, sheetIdx, workbook, outcome>>
    /\ UNCHANGED zipVars
    /\ UNCHANGED onErrorCalled

Next ==
    \/ ParseAscFilesFromFolders
    \/ ProcessFile
    \/ ParseReturn
    \/ GenerateExcel
    \/ AppendSheet
    \/ AppendErrorSheet
    \/ SectionCatchThrows
    \/ WriteWorkbook
    \/ DownloadExcel

Spec == Init /\ [][Next]_vars

(***************************************************************************)
(* extractAscFromZip and the App's grouping of its result into folders     *)
(***************************************************************************)
\* the entries of a ZIP: a directory, a file with its text, a nested ZIP
\* with its own entries
DirEntry(path) ==
    [path |-> path, dir |-> TRUE, content |-> "", files |-> <<>>, readable |-> TRUE]

FileEntry(path, content) ==
    [path |-> path, dir |-> FALSE, content |-> content, files |-> <<>>,
     readable |-> TRUE]

ZipEntry(path, files) ==
    [path |-> path, dir |-> FALSE, content |-> "", files |-> files,
     readable |-> TRUE]

\* an entry whose async('string') / async('blob') / loadAsync rejects
UnreadableEntry(path) ==
    [path |-> path, dir |-> FALSE, content |-> "", files |-> <<>>,
     readable |-> FALSE]

RECURSIVE filesEnding(_, _)
\* allFiles.filter(path => !files[path].dir)
\*         .filter(filename => filename.toLowerCase().endsWith(ext))
filesEnding(entries, ext) ==
    IF Len(entries) = 0 THEN <<>>
    ELSE IF ~entries[1].dir /\ endsWith(toLowerCase(entries[1].path), ext)
         THEN <<entries[1]>> \o filesEnding(Tail(entries), ext)
         ELSE filesEnding(Tail(entries), ext)

ascFilesOf(entries) == filesEnding(entries, ".asc")

nestedZipFilesOf(entries) == filesEnding(entries, ".zip")

\* filename.split('/').pop() || filename
simpleFilenameOf(filename) ==
    LET parts == split(filename, "/")
    IN  IF parts[Len(parts)] # "" THEN parts[Len(parts)] ELSE filename

\* zipFilePath.split('/').pop()?.replace(/\.zip$/i, '') || `nested_${index}`
nestedFolderNameOf(zipFilePath, index) ==
    LET parts == split(zipFilePath, "/")
        base == parts[Len(parts)]
        stripped == IF endsWith(toLowerCase(base), ".zip")
                    THEN SubSeq(base, 1, Len(base) - 4) ELSE base
    IN  IF stripped # "" THEN stripped
        ELSE "nested_" \o charAt("0123456789", index + 1)

RECURSIVE setSimple(_, _)
\* for (const f of files) try { folderFiles.set(simpleFilename, content) }
\* catch { }: a file whose read fails is left out
setSimple(folderFiles, files) ==
    IF Len(files) = 0 THEN folderFiles
    ELSE setSimple(IF files[1].readable
                   THEN MapSet(folderFiles, simpleFilenameOf(files[1].path),
                               files[1].content)
                   ELSE folderFiles,
                   Tail(files))

\* if (folderFiles.size > 0) extractedFolders.push({ folderName, files })
pushFolder(folders, folderName, folderFiles) ==
    IF Len(folderFiles) > 0 THEN Append(folders, <<folderName, folderFiles>>)
    ELSE folders

RECURSIVE possibleTextFilesOf(_)
\* files that might be ASC data under another extension
possibleTextFilesOf(entries) ==
    IF Len(entries) = 0 THEN <<>>
    ELSE LET lowerName == toLowerCase(entries[1].path)
             possible == /\ ~entries[1].dir
                         /\ \/ endsWith(lowerName, ".txt")
                            \/ endsWith(lowerName, ".csv")
                            \/ endsWith(lowerName, ".dat")
                            \/ indexOf(lowerName, "asc") > 0
         IN  IF possible THEN <<entries[1]>> \o possibleTextFilesOf(Tail(entries))
             ELSE possibleTextFilesOf(Tail(entries))

\* the folder 'text_files', made when no folder was extracted and the first
\* line of the first possible text file holds a pipe
textFilesFallback(entries) ==
    LET possibleTextFiles == possibleTextFilesOf(entries)
    IN  IF Len(possibleTextFiles) = 0 THEN <<>>
        ELSE IF ~possibleTextFiles[1].readable THEN <<>>
        ELSE LET firstLine ==
                     substring(split(possibleTextFiles[1].content, "\n")[1], 0, 100)
             IN  IF indexOf(firstLine, "|") > 0
                 THEN pushFolder(<<>>, "text_files",
                                 setSimple(<<>>, possibleTextFiles))
                 ELSE <<>>

\* for (const folder of extractedFolders) for (const [filename, content] ...)
\*     fileContents.set(`${folder.folderName}/${filename}`, content)
combineFolders(folders) == flatten(<<>>, folders)

RECURSIVE groupByFolder(_, _)
\* the App: split each path at its first '/' and group the files by folder
groupByFolder(folderMap, paths) ==
    IF Len(paths) = 0 THEN folderMap
    ELSE LET path == paths[1][1]
             parts == split(path, "/")
             folderName == IF Len(parts) > 1 THEN parts[1] ELSE "main"
             fileName == IF Len(parts) > 1 THEN join(Tail(parts), "/") ELSE path
             known == IF MapHas(folderMap, folderName) THEN folderMap
                      ELSE MapSet(folderMap, folderName, <<>>)
         IN  groupByFolder(
                 MapSet(known, folderName,
                        MapSet(MapGet(known, folderName), fileName, paths[1][2])),
                 Tail(paths))

\* the ZIP files uploaded
ZipCases ==
    { \* two directories with a file of the same name
      << DirEntry("carpeta1/"), FileEntry("carpeta1/a_501.asc", "a|b\n1|2"),
         DirEntry("carpeta2/"), FileEntry("carpeta2/a_501.asc", "a|b\n3|4") >>,
      \* two nested ZIPs of the same base name
      << ZipEntry("dir1/x.zip", <<FileEntry("a_501.asc", "a|b\n1|2")>>),
         ZipEntry("dir2/x.zip", <<FileEntry("a_501.asc", "a|b\n3|4")>>) >>,
      \* files in the root and in nested ZIPs of different names
      << FileEntry("a_501.asc", "a|b\n1|2"),
         FileEntry("c_502.ASC", "c\n7"),
         ZipEntry("lote1.zip", << FileEntry("a_501.asc", "a|b\n3|4"),
                                  DirEntry("sub/"),
                                  FileEntry("sub/b_502.asc", "c\n5"),
                                  FileEntry("leeme.txt", "x") >>),
         ZipEntry("lote2.ZIP", <<FileEntry("a_501.asc", "a|b\n5|6")>>) >>,
      \* section values whose sheet names coincide once sanitized
      << FileEntry("bad.asc", "section|v\na/|1\na:|2\na?|3") >>,
      \* no .asc file, and a text file with pipes
      << FileEntry("datos/sec.txt", "code|v\n501|1"),
         FileEntry("leeme.md", "nada") >>,
      \* nothing to extract: a text file without pipes, a nested ZIP without
      \* .asc files
      << FileEntry("leeme.txt", "nada"),
         ZipEntry("vacio.zip", <<FileEntry("leeme.md", "nada")>>) >>,
      \* a nested ZIP whose name is the extension alone, and files that give
      \* no section
      << ZipEntry("a/.zip", <<FileEntry("k_430.asc", "a\n1")>>),
         FileEntry("nosec.asc", "a|b\n1|2") >>,
      << FileEntry("nosec.asc", "a|b\n1|2"), FileEntry("e_503.asc", "") >>,
      \* reads that fail: a file of the root, a nested ZIP, a file of a
      \* nested ZIP
      << FileEntry("a_501.asc", "a|b\n1|2"),
         UnreadableEntry("u_502.asc"),
         UnreadableEntry("roto.zip"),
         ZipEntry("lote.zip", << UnreadableEntry("x_503.asc"),
                                 FileEntry("y_504.asc", "c\n5") >>) >>,
      \* no read succeeds
      << UnreadableEntry("u_501.asc") >>
    }

ZipInit ==
    /\ zipFile \in ZipCases
    /\ pendingReads = {}
    /\ mainFolderFiles = <<>>
    /\ extractedFolders = <<>>
    /\ zipFileContents = <<>>
    /\ folderContents = <<>>
    /\ allFileContents = <<>>
    /\ fileIdx = 1
    /\ sectionMap = <<>>
    /\ parseError = ""
    /\ pc = "idle"
    /\ orderedSections = <<>>
    /\ sheetIdx = 1
    /\ workbook = <<>>
    /\ outcome = NoOutcome
    /\ isProcessing = FALSE
    /\ \E lastRun \in { <<"", "">>, <<NoFilesExtracted, "">>,
                         <<"", successMessageOf(1)>> } :
          /\ error = lastRun[1]
          /\ successMessage = lastRun[2]
    /\ downloadStarted = FALSE
    /\ onErrorCalled = FALSE

\* the state of the parser and of generateExcel
pipelineVars == <<allFileContents, fileIdx, sectionMap, parseError,
                  orderedSections, sheetIdx, workbook, outcome>>

\* a start of handleFileAccepted that leaves the messages of the last run
HandleFileAcceptedKeepingMessages ==
    /\ pc = "idle"
    /\ isProcessing' = TRUE
    /\ pc' = "zip"
    /\ UNCHANGED <<error, successMessage, downloadStarted, onErrorCalled,
                   folderContents>>
    /\ UNCHANGED zipVars
    /\ UNCHANGED pipelineVars

\* handleFileAccepted up to its call of extractAscFromZip
HandleFileAccepted ==
    /\ pc = "idle"
    /\ isProcessing' = TRUE
    /\ error' = ""
    /\ successMessage' = ""
    /\ pc' = "zip"
    /\ UNCHANGED <<downloadStarted, onErrorCalled, folderContents>>
    /\ UNCHANGED zipVars
    /\ UNCHANGED pipelineVars

\* the tasks started for n files: one per file
tasksOf(kind, n) == {<<kind, i>> : i \in 1..n}

\* a join that waits for nothing
notAwaited(pending) == TRUE

\* await Promise.all(promises): every task has settled
allSettled(pending) == pending = {}

\* the ZIP is loaded and the reads of its .asc files start, all at once
LoadZip ==
    /\ pc = "zip"
    /\ IF Len(ascFilesOf(zipFile)) > 0
       THEN /\ pc' = "mainReads"
            /\ pendingReads' = tasksOf("main", Len(ascFilesOf(zipFile)))
       ELSE /\ pc' = "nestedZips"
            /\ pendingReads' = tasksOf("nested", Len(nestedZipFilesOf(zipFile)))
    /\ UNCHANGED <<zipFile, mainFolderFiles, extractedFolders, zipFileContents,
                   folderContents>>
    /\ UNCHANGED pipelineVars
    /\ UNCHANGED appVars

\* loadAsync rejects (the file is no ZIP, or a checksum is wrong): the outer
\* catch block calls onError and returns the empty Map
LoadZipFails ==
    /\ pc = "zip"
    /\ error' = ExtractionError
    /\ onErrorCalled' = TRUE
    /\ zipFileContents' = <<>>
    /\ pc' = "extracted"
    /\ UNCHANGED <<zipFile, pendingReads, mainFolderFiles, extractedFolders,
                   folderContents>>
    /\ UNCHANGED pipelineVars
    /\ UNCHANGED <<isProcessing, successMessage, downloadStarted>>

\* the read of one .asc file of the main ZIP settles, in whatever order: its
\* text is stored, or the rejection is caught
CompleteMainRead ==
    /\ \E t \in pendingReads :
          /\ t[1] = "main"
          /\ mainFolderFiles' = setSimple(mainFolderFiles, <<ascFilesOf(zipFile)[t[2]]>>)
          /\ pendingReads' = pendingReads \ {t}
    /\ UNCHANGED <<zipFile, extractedFolders, zipFileContents, folderContents, pc>>
    /\ UNCHANGED pipelineVars
    /\ UNCHANGED appVars

\* Promise.all of the main reads is settled: the folder 'main' is pushed
\* and the nested ZIPs start, all at once
MainReadsDone ==
    /\ pc = "mainReads"
    /\ allSettled(pendingReads)
    /\ extractedFolders' = pushFolder(extractedFolders, "main", mainFolderFiles)
    /\ pendingReads' = pendingReads
                          \cup tasksOf("nested", Len(nestedZipFilesOf(zipFile)))
    /\ pc' = "nestedZips"
    /\ UNCHANGED <<zipFile, mainFolderFiles, zipFileContents, folderContents>>
    /\ UNCHANGED pipelineVars
    /\ UNCHANGED appVars

\* one nested ZIP is read through and its folder pushed, in whatever order;
\* a nested ZIP that cannot be loaded is caught and pushes nothing
CompleteNestedZip ==
    /\ \E t \in pendingReads :
          LET nested == nestedZipFilesOf(zipFile)[t[2]]
          IN  /\ t[1] = "nested"
              /\ extractedFolders' =
                     IF nested.readable
                     THEN pushFolder(extractedFolders,
                                     nestedFolderNameOf(nested.path, t[2] - 1),
                                     setSimple(<<>>, ascFilesOf(nested.files)))
                     ELSE extractedFolders
              /\ pendingReads' = pendingReads \ {t}
    /\ UNCHANGED <<zipFile, mainFolderFiles, zipFileContents, folderContents, pc>>
    /\ UNCHANGED pipelineVars
    /\ UNCHANGED appVars

\* Promise.all of the nested ZIPs is settled: the fallback to text files,
\* onError when there is still no folder, and the folders combined into the
\* Map that is returned
FinishExtraction ==
    /\ pc = "nestedZips"
    /\ allSettled(pendingReads)
    /\ extractedFolders' = IF Len(extractedFolders) = 0
                           THEN textFilesFallback(zipFile)
                           ELSE extractedFolders
    /\ zipFileContents' = combineFolders(extractedFolders')
    /\ IF Len(extractedFolders') = 0
       THEN /\ error' = NoAscFilesFound
            /\ onErrorCalled' = TRUE
       ELSE UNCHANGED <<error, onErrorCalled>>
    /\ pc' = "extracted"
    /\ UNCHANGED <<zipFile, pendingReads, mainFolderFiles, folderContents>>
    /\ UNCHANGED pipelineVars
    /\ UNCHANGED <<isProcessing, successMessage, downloadStarted>>

\* the App: no file extracted ends the run with an error message; else the
\* files are grouped by folder for parseAscFilesFromFolders
GroupByFolder ==
    /\ pc = "extracted"
    /\ IF Len(zipFileContents) = 0
       THEN /\ error' = NoFilesExtracted
            /\ isProcessing' = FALSE
            /\ pc' = "done"
            /\ UNCHANGED folderContents
       ELSE /\ pc' = "start"
            /\ folderContents' = groupByFolder(<<>>, zipFileContents)
            /\ UNCHANGED <<error, isProcessing>>
    /\ UNCHANGED zipVars
    /\ UNCHANGED pipelineVars
    /\ UNCHANGED <<successMessage, downloadStarted, onErrorCalled>>

\* a statement of the App's own between its calls throws, whatever the
\* cause: the catch block shows the error, the finally block ends the run
HandlerThrows ==
    /\ \/ pc = "extracted" /\ Len(zipFileContents) > 0
       \/ pc = "parsed"
       \/ pc = "generated"
    /\ error' = ProcessingError
    /\ isProcessing' = FALSE
    /\ pc' = "done"
    /\ UNCHANGED <<successMessage, downloadStarted, onErrorCalled, folderContents>>
    /\ UNCHANGED zipVars
    /\ UNCHANGED pipelineVars

ZipNext ==
    \/ HandleFileAccepted
    \/ LoadZip
    \/ LoadZipFails
    \/ CompleteMainRead
    \/ MainReadsDone
    \/ CompleteNestedZip
    \/ FinishExtraction
    \/ GroupByFolder
    \/ ParseAscFilesFromFolders
    \/ ProcessFile
    \/ ParseReturn
    \/ GenerateExcel
    \/ AppendSheet
    \/ AppendErrorSheet
    \/ SectionCatchThrows
    \/ WriteWorkbook
    \/ DownloadExcel
    \/ HandlerThrows

ZipSpec == ZipInit /\ [][ZipNext]_vars

\* handleFileAccepted is running: one of its steps can be taken
Running == pc \notin {"idle", "done"}

\* the same run under the event loop, which runs every continuation that is
\* ready, and with synchronous code that runs on: the handler starts, and a
\* step that can be taken is taken.  The last conjunct is WF_vars(ZipNext)
\* after the start, with ENABLED <<ZipNext>>_vars written out as Running.
FairZipSpec ==
    /\ ZipSpec
    /\ WF_vars(HandleFileAccepted)
    /\ ([]<>(~Running) \/ []<><<ZipNext>>_vars)

(***************************************************************************)
(* What the claims speak of                                                *)
(***************************************************************************)
\* parseAscFiles has returned
Parsed == pc \in {"parsed", "sheets", "generated", "done"}

\* parseAscFilesFromFolders has just returned its ParsedData to the caller
Returned ==
    \/ pc = "parsed"
    \/ pc = "done" /\ outcome.kind = "none" /\ error \in {NoValidData, NoSectionsFound}

\* the list stored under a code, empty when the code is absent
recordsOf(sm, c) == IF MapHas(sm, c) THEN MapGet(sm, c) ELSE <<>>

\* the data rows of a file as the parser reads them
dataRowsOf(content) ==
    IF trim(content) = "" THEN <<>> ELSE PapaParse(cleanContent(content))

\* the code a data row of a file resolves to, "" when it resolves to none:
\* the code of the file's name, else the row's value in the section column
resolvedCode(filename, rows, row) ==
    IF filenameSectionOf(filename) # "" THEN filenameSectionOf(filename)
    ELSE ObjGet(row, findSectionHeader(ObjKeys(rows[1])))

\* the data rows of one file, in row order, each with the code it resolves to
resolvedRowsOfFile(filename, content) ==
    LET rows == dataRowsOf(content)
    IN  <<>> \o [k \in 1..Len(rows) |-> <<resolvedCode(filename, rows, rows[k]), rows[k]>>]

RECURSIVE resolvedRowsOfFolder(_, _)
\* the same over the files of one folder, from file j on, in file order
resolvedRowsOfFolder(files, j) ==
    IF j > Len(files) THEN <<>>
    ELSE resolvedRowsOfFile(files[j][1], files[j][2]) \o resolvedRowsOfFolder(files, j + 1)

RECURSIVE resolvedRowsOfFolders(_, _)
\* the same over the folders, from folder i on, in folder order
resolvedRowsOfFolders(folders, i) ==
    IF i > Len(folders) THEN <<>>
    ELSE resolvedRowsOfFolder(folders[i][2], 1) \o resolvedRowsOfFolders(folders, i + 1)

\* the positions of a list of <<code, row>> pairs that carry code c
positionsOf(c, pairs) == {k \in 1..Len(pairs) : pairs[k][1] = c}

\* the place of position k among the positions P, counted from 1
rankIn(k, P) == Cardinality({j \in P : j <= k})

\* the record at the place of row k of the pairs, in the list of its code
recordAt(sm, pairs, k) ==
    recordsOf(sm, pairs[k][1])[rankIn(k, positionsOf(pairs[k][1], pairs))]

\* the rows of the pairs that resolve to a code
resolvedPositions(pairs) == {k \in 1..Len(pairs) : pairs[k][1] # ""}

\* every code the input or the section map speaks of
codesIn(pairs, sm) ==
    ({pairs[k][1] : k \in 1..Len(pairs)} \ {""}) \cup {sm[i][1] : i \in 1..Len(sm)}

(***************************************************************************)
(* C1.  Merge correctness: once parseAscFilesFromFolders has returned, the *)
(* list under every section code holds exactly one record per data row     *)
(* that resolves to that code, no row lost or duplicated, the rows of one  *)
(* file in row order and the files in folder-then-file order.              *)
(***************************************************************************)
C1_MergeCorrectness ==
    Returned =>
        LET pairs == resolvedRowsOfFolders(folderContents, 1)
        IN  /\ \A c \in codesIn(pairs, sectionMap) :
                  Len(recordsOf(sectionMap, c)) = Cardinality(positionsOf(c, pairs))
            /\ \A k \in resolvedPositions(pairs) :
                  recordAt(sectionMap, pairs, k) = enhancedRow(pairs[k][2])

\* two folders that hold files of the same names, all of code 501: the
\* eight rows are there
C1_Witness ==
    /\ Returned
    /\ Len(folderContents) = 2
    /\ folderContents[1][2] = FolderCases[1]
    /\ folderContents[2][2] = FolderCases[1]
    /\ Len(recordsOf(sectionMap, "501")) = 8


(***************************************************************************)
(* C2.  Section completeness: every file whose name resolves a section     *)
(* code and that yields no data row has its code registered in the section *)
(* map, and the workbook has a sheet for that code; for every resolved     *)
(* three-digit code, known or not.                                         *)
(***************************************************************************)
C2_SectionCompleteness ==
    \A i \in 1..Len(folderContents) : \A j \in 1..Len(folderContents[i][2]) :
        LET filename == folderContents[i][2][j][1]
            code == filenameSectionOf(filename)
        IN  (code # "" /\ Len(dataRowsOf(folderContents[i][2][j][2])) = 0) =>
                /\ Returned => MapHas(sectionMap, code)
                /\ (pc = "done" /\ outcome.kind = "blob") =>
                       includes(SheetNames(outcome.sheets),
                                sanitizeSheetName(getFormattedSheetName(code)))

(***************************************************************************)
(* C3.  The parser returns an error exactly when the section map it        *)
(* returns is empty: an empty map comes with the 'no valid data' error, a  *)
(* map with a section code comes with no error.                            *)
(***************************************************************************)
C3_ErrorIffEmpty ==
    Returned =>
        /\ (parseError # "") <=> (Len(sectionMap) = 0)
        /\ Len(sectionMap) = 0 => parseError = NoValidData

\* files with content were processed and none gave a section
C3_Witness ==
    /\ Returned
    /\ parseError = NoValidData
    /\ Len(sectionMap) = 0
    /\ \E i \in 1..Len(allFileContents) : trim(allFileContents[i][2]) # ""

(***************************************************************************)
(* C4.  Never-empty output: the pipeline on a non-empty folder map throws  *)
(* nothing to its caller, and ends in exactly one of two outcomes, a       *)
(* workbook blob with a sheet or the 'no data' error value.                *)
(***************************************************************************)
C4_NeverUnhandled ==
    /\ Len(folderContents) > 0
    /\ outcome.kind # "threw"
    /\ pc = "done" =>
          \/ parseError = NoValidData /\ outcome.kind = "none"
          \/ parseError = "" /\ outcome.kind = "blob" /\ Len(outcome.sheets) > 0

\* the run in which the catch block of one section throws itself, and the
\* outer catch block hands back the 'Error' workbook
C4_Witness ==
    /\ pc = "done"
    /\ outcome.kind = "blob"
    /\ SheetNames(outcome.sheets) = <<"Error">>
    /\ Len(workbook) >= 2


\* the place of x in a sequence that holds it
placeIn(seq, x) == CHOOSE i \in 1..Len(seq) : seq[i] = x

\* ordered holds the keys of the map once each: those of the list first and
\* in the order of the list, the others after them in the order of insertion
IsOrderedBy(ordered, list, sm) ==
    LET keys == MapKeys(sm)
    IN  /\ Len(ordered) = Len(keys)
        /\ {ordered[i] : i \in 1..Len(ordered)} = {keys[i] : i \in 1..Len(keys)}
        /\ \A i, j \in 1..Len(ordered) :
              i < j =>
                  LET a == ordered[i]
                      b == ordered[j]
                  IN  IF includes(list, a) /\ includes(list, b)
                      THEN placeIn(list, a) < placeIn(list, b)
                      ELSE IF ~includes(list, a) /\ ~includes(list, b)
                           THEN placeIn(keys, a) < placeIn(keys, b)
                           ELSE includes(list, a)

\* sheet i of the workbook is the sheet of the i-th ordered section: it has
\* the name of the section, or the name of the error sheet of the section
SheetsFollow(ordered, wb) ==
    /\ Len(wb) <= Len(ordered)
    /\ \A i \in 1..Len(wb) :
          wb[i].name \in {sanitizeSheetName(getFormattedSheetName(ordered[i])),
                          sanitizeSheetName("Error_" \o ordered[i])}

\* the list the sheets are ordered by
FixedOrder ==
    << "501", "502", "503", "504", "505", "506", "507", "508", "509", "510",
       "511", "512", "520", "701", "702",
       "551", "552", "553", "554", "555", "556", "557", "558",
       "160", "240", "430" >>

(***************************************************************************)
(* C5 as the spec states it.  The sheets come in the order of the 23       *)
(* allow-list codes, and every other code follows in the order of          *)
(* insertion of the section map.                                           *)
(***************************************************************************)
C5_SheetOrder_AsStated ==
    pc \in {"sheets", "generated", "done"} =>
        /\ IsOrderedBy(orderedSections, validSectionCodes, sectionMap)
        /\ SheetsFollow(orderedSections, workbook)

(***************************************************************************)
(* C5.  Sheet ordering: the sheets come in the order of a fixed list of 26 *)
(* codes, the 23 allow-list codes followed by 160, 240 and 430; every code *)
(* outside that list follows in the order of insertion of the section map. *)
(***************************************************************************)
C5_SheetOrder ==
    pc \in {"sheets", "generated", "done"} =>
        /\ IsOrderedBy(orderedSections, FixedOrder, sectionMap)
        /\ SheetsFollow(orderedSections, workbook)

\* sections inserted as 430, 998, 160 come out as 160, 430, 998
C5_Witness ==
    /\ pc = "done"
    /\ MapKeys(sectionMap) = <<"430", "998", "160">>
    /\ orderedSections = <<"160", "430", "998">>
    /\ Len(outcome.sheets) = 3

\* the characters a sheet name may not hold
ForbiddenInSheetName == {"[", "]", "*", "?", "/", "\\", ":"}

(***************************************************************************)
(* C6.  Sheet naming: the sheet of each of the 23 known codes is named by  *)
(* the code, a space and the label of the code, cut to 31 characters; the  *)
(* name has at most 31 characters and none of [ ] * ? / \ :                *)
(***************************************************************************)
C6_KnownSheetNames ==
    \A i \in 1..Len(workbook) :
        LET code == orderedSections[i]
            full == code \o " " \o ObjGet(SECTION_NAMES, code)
            name == workbook[i].name
        IN  includes(validSectionCodes, code) =>
                /\ name = SubSeq(full, 1, IF Len(full) < 31 THEN Len(full) ELSE 31)
                /\ Len(name) <= 31
                /\ \A k \in 1..Len(name) : charAt(name, k) \notin ForbiddenInSheetName

\* a known code whose name is cut, and one whose name is not
C6_Witness ==
    /\ \E i \in 1..Len(workbook) :
          /\ orderedSections[i] = "556"
          /\ workbook[i].name = "556 Tasas de contribuciones (pa"
    /\ \E i \in 1..Len(workbook) :
          /\ orderedSections[i] = "551"
          /\ workbook[i].name = "551 Partidas"

\* the names every object inherits
InheritedNames ==
    {ObjectPrototype[i][1] : i \in 1..Len(ObjectPrototype)}

\* the sheet of section i was built, and not replaced by its error sheet
SheetBuilt(i) ==
    workbook[i].name # sanitizeSheetName("Error_" \o orderedSections[i])

(***************************************************************************)
(* C7 as the spec states it.  The sheet of every code outside the 23 known *)
(* codes is named by the sanitized form of '<code> Section <code>'.        *)
(***************************************************************************)
C7_LabelFallback_AsStated ==
    \A i \in 1..Len(workbook) :
        LET code == orderedSections[i]
        IN  (~includes(validSectionCodes, code) /\ SheetBuilt(i)) =>
                workbook[i].name
                    = sanitizeSheetName(code \o " Section " \o code)

(***************************************************************************)
(* C7.  Label fallback: the sheet of every code that is none of the 26     *)
(* codes with a label (the 23 known codes, 160, 240, 430) and no name that *)
(* objects inherit is named by the sanitized form of                       *)
(* '<code> Section <code>'.                                                *)
(***************************************************************************)
C7_LabelFallback ==
    \A i \in 1..Len(workbook) :
        LET code == orderedSections[i]
        IN  ( /\ ~includes(FixedOrder, code)
              /\ code \notin InheritedNames
              /\ SheetBuilt(i) ) =>
                workbook[i].name
                    = sanitizeSheetName(code \o " Section " \o code)

\* a code without a label got its sheet
C7_Witness ==
    \E i \in 1..Len(workbook) :
        /\ orderedSections[i] = "999"
        /\ workbook[i].name = "999 Section 999"

\* a hyphen goes before a part that is present and follows a present part
dashBefore(parts, k) ==
    IF parts[k] # "" /\ \E j \in 1..(k - 1) : parts[j] # "" THEN "-" ELSE ""

\* the parts that are present, each after the first with a hyphen before it
hyphenated(parts) ==
    dashBefore(parts, 1) \o parts[1] \o dashBefore(parts, 2) \o parts[2]
        \o dashBefore(parts, 3) \o parts[3] \o dashBefore(parts, 4) \o parts[4]

\* the year, section, patent and pedimento parts of a row
partsOf(row) ==
    << yearOf(row), firstField(row, seccionFields),
       firstField(row, patenteFields), firstField(row, pedimentoFields) >>

(***************************************************************************)
(* C8.  Identifier synthesis: the identifier stored with a row is the year *)
(* fragment, the section, the patent and the pedimento number of the row,  *)
(* those that are present, joined by hyphens and nothing else; year 25,    *)
(* section 4, patent 3456 and number 0012345 give 25-4-3456-0012345.       *)
(***************************************************************************)
C8_IdentifierSynthesis ==
    Returned =>
        LET pairs == resolvedRowsOfFolders(folderContents, 1)
        IN  \A k \in resolvedPositions(pairs) :
                LET row == pairs[k][2]
                    id == ObjGet(recordAt(sectionMap, pairs, k), "No_Pedimento")
                IN  ~ObjHas(row, "No_Pedimento") =>
                        /\ id = hyphenated(partsOf(row))
                        /\ partsOf(row) = <<"25", "4", "3456", "0012345">>
                               => id = "25-4-3456-0012345"

\* the row of the example, a row without year and patent, a row without parts
C8_Witness ==
    /\ Returned
    /\ \E i \in 1..Len(recordsOf(sectionMap, "501")) :
          ObjGet(recordsOf(sectionMap, "501")[i], "No_Pedimento") = "25-4-3456-0012345"
    /\ \E i \in 1..Len(recordsOf(sectionMap, "505")) :
          /\ ObjGet(recordsOf(sectionMap, "505")[i], "No_Pedimento") = "47-9"
          /\ ObjGet(recordsOf(sectionMap, "505")[i], "ADUANA") = "47"
    /\ \E i \in 1..Len(recordsOf(sectionMap, "505")) :
          /\ ObjHas(recordsOf(sectionMap, "505")[i], "No_Pedimento")
          /\ ObjGet(recordsOf(sectionMap, "505")[i], "No_Pedimento") = ""

(***************************************************************************)
(* C9.  Identifier injection: every stored record has No_Pedimento as its  *)
(* first field, and the value of the field is the combined identifier of   *)
(* the row; also when the file has a No_Pedimento column of its own.       *)
(***************************************************************************)
C9_IdentifierInjection ==
    Returned =>
        LET pairs == resolvedRowsOfFolders(folderContents, 1)
        IN  \A k \in resolvedPositions(pairs) :
                recordAt(sectionMap, pairs, k)[1]
                    = <<"No_Pedimento", createCombinedIdentifier(pairs[k][2])>>

(***************************************************************************)
(* C10.  Filename resolution priority: when the name of a file matches the *)
(* section pattern and the file has data rows, the step that processes the *)
(* file appends every row to the list of the filename's code and leaves    *)
(* the list of every other code as it was, whatever the section column of  *)
(* the rows says.                                                          *)
(***************************************************************************)
C10_FilenamePriority ==
    [][ (pc = "files" /\ fileIdx' = fileIdx + 1) =>
          LET filename == allFileContents[fileIdx][1]
              rows == dataRowsOf(allFileContents[fileIdx][2])
              code == filenameSectionOf(filename)
          IN  (code # "" /\ Len(rows) > 0) =>
                  /\ recordsOf(sectionMap', code)
                        = recordsOf(sectionMap, code)
                              \o [k \in 1..Len(rows) |-> enhancedRow(rows[k])]
                  /\ \A c \in {sectionMap'[i][1] : i \in 1..Len(sectionMap')} \ {code} :
                        /\ MapHas(sectionMap, c)
                        /\ recordsOf(sectionMap', c) = recordsOf(sectionMap, c)
      ]_vars

\* the file n_504.asc, whose rows name 505 and 777 in their section column,
\* was processed: its three rows are under 504, none under 505 or 777
C10_Witness ==
    /\ Returned
    /\ \E i \in 1..Len(allFileContents) : allFileContents[i][1] = "main/n_504.asc"
    /\ Len(recordsOf(sectionMap, "504")) >= 3
    /\ \E i \in 1..Len(recordsOf(sectionMap, "504")) :
          ObjGet(recordsOf(sectionMap, "504")[i], "code") = "505"
    /\ \E i \in 1..Len(recordsOf(sectionMap, "504")) :
          ObjGet(recordsOf(sectionMap, "504")[i], "code") = "777"
    /\ ~MapHas(sectionMap, "505")
    /\ ~MapHas(sectionMap, "777")

\* the code a file name carries by the pattern with an extension of any
\* case: an underscore, three digits, a dot and asc, ASC, Asc, ...
sectionOfAnyCase(filename) ==
    LET n == Len(filename)
    IN  IF /\ n >= 8
           /\ charAt(filename, n - 7) = "_"
           /\ AllDigits(SubSeq(filename, n - 6, n - 4))
           /\ charAt(filename, n - 3) = "."
           /\ toLowerCase(SubSeq(filename, n - 2, n)) = "asc"
        THEN SubSeq(filename, n - 6, n - 4)
        ELSE ""

(***************************************************************************)
(* C11.  Filename pattern: a file name resolves a section code exactly     *)
(* when it ends with an underscore, three digits and the extension asc in  *)
(* any case (.asc, .ASC, .Asc); the code is the three digits, and the data *)
(* rows of the file are stored under it.                                   *)
(***************************************************************************)
C11_FilenamePattern ==
    Returned =>
        \A i \in 1..Len(allFileContents) :
            LET filename == allFileContents[i][1]
                code == sectionOfAnyCase(filename)
            IN  /\ filenameSectionOf(filename) = code
                /\ (code # "" /\ Len(dataRowsOf(allFileContents[i][2])) > 0)
                       => MapHas(sectionMap, code)

RECURSIVE rowsOfValue(_, _, _)
\* the rows that hold value v in the column, in their order
rowsOfValue(rows, column, v) ==
    IF Len(rows) = 0 THEN <<>>
    ELSE IF ObjGet(rows[1], column) = v
         THEN <<rows[1]>> \o rowsOfValue(Tail(rows), column, v)
         ELSE rowsOfValue(Tail(rows), column, v)

\* the file of the scenario: header code|value, rows 501|10 and 999|20
ScenarioUnknownCode == <<"main/data.asc", "code|value\n501|10\n999|20">>

(***************************************************************************)
(* C12.  Unknown codes are accepted: the step that processes a file which  *)
(* is resolved by its section column appends every row with a non-empty    *)
(* section value to the list of that value, in the allow-list or not; the  *)
(* file with header code|value and rows 501|10, 999|20 gives the keys 501  *)
(* and 999 with one record each.                                           *)
(***************************************************************************)
C12_UnknownCodesAccepted ==
    /\ [][ (pc = "files" /\ fileIdx' = fileIdx + 1) =>
             LET filename == allFileContents[fileIdx][1]
                 rows == dataRowsOf(allFileContents[fileIdx][2])
                 column == IF Len(rows) = 0 THEN ""
                           ELSE findSectionHeader(ObjKeys(rows[1]))
             IN  (filenameSectionOf(filename) = "" /\ column # "") =>
                     \A k \in 1..Len(rows) :
                         LET v == ObjGet(rows[k], column)
                             mine == rowsOfValue(rows, column, v)
                         IN  v # "" =>
                                 recordsOf(sectionMap', v)
                                     = recordsOf(sectionMap, v)
                                         \o [n \in 1..Len(mine) |-> enhancedRow(mine[n])]
         ]_vars
    /\ []( ( /\ pc = "files"
             /\ fileIdx = 2
             /\ allFileContents[1] = ScenarioUnknownCode )
           => /\ MapKeys(sectionMap) = <<"501", "999">>
              /\ Len(MapGet(sectionMap, "501")) = 1
              /\ Len(MapGet(sectionMap, "999")) = 1
              /\ ObjGet(MapGet(sectionMap, "999")[1], "value") = "20" )

\* the file of the scenario was processed, and 999 is no allow-list code
C12_Witness ==
    /\ pc = "files"
    /\ fileIdx = 2
    /\ allFileContents[1] = ScenarioUnknownCode
    /\ MapHas(sectionMap, "999")
    /\ ~includes(validSectionCodes, "999")

(***************************************************************************)
(* C13.  One worksheet per section code: the workbook that generateExcel   *)
(* returns for a section map of n codes has exactly n sheets, the i-th     *)
(* being the sheet of the i-th code in sheet order.                        *)
(***************************************************************************)
C13_OneSheetPerCode ==
    (pc = "done" /\ outcome.kind = "blob") =>
        /\ Len(outcome.sheets) = Len(sectionMap)
        /\ SheetsFollow(orderedSections, outcome.sheets)

(***************************************************************************)
(* C14.  Per-section failure isolation: whenever appending the sheet of a  *)
(* section fails, the step adds the sheet Error_<code> with the error text *)
(* and the loop goes on with the next section; the workbook built so far   *)
(* is never given up for the one-sheet 'Error' workbook.                   *)
(***************************************************************************)
C14_FailureIsolation ==
    [][ ( /\ pc = "sheets"
          /\ sheetIdx <= Len(orderedSections)
          /\ appendThrows(workbook,
                 sanitizeSheetName(getFormattedSheetName(orderedSections[sheetIdx]))) )
        => /\ pc' = "sheets"
           /\ sheetIdx' = sheetIdx + 1
           /\ Len(workbook') = Len(workbook) + 1
           /\ SubSeq(workbook', 1, Len(workbook)) = workbook
           /\ workbook'[Len(workbook')].name
                 \in {"Error_" \o orderedSections[sheetIdx],
                      sanitizeSheetName("Error_" \o orderedSections[sheetIdx])}
           /\ workbook'[Len(workbook')].data[1] = <<"Error processing this section">>
      ]_vars

RECURSIVE parseUpTo(_, _)
\* the loop of parseAscFiles run afresh over the first i files: the map of
\* the files before file i, then the iteration on file i
parseUpTo(fileContents, i) ==
    IF i = 0 THEN <<>>
    ELSE LET before == parseUpTo(fileContents, i - 1)
         IN  IF Len(before) = 0
             THEN processFile(<<>>, fileContents[i][1], fileContents[i][2])
             ELSE processFile(before, fileContents[i][1], fileContents[i][2])

\* the section map a second run of the parser gives for the folder map
secondRun(folders) ==
    LET fileContents == flatten(<<>>, folders)
    IN  parseUpTo(fileContents, Len(fileContents))

sheetsStarting(sheets, text) ==
    {i \in 1..Len(sheets) : SubSeq(sheets[i].name, 1, Len(text)) = text}

(***************************************************************************)
(* C17.  Two-folder scenario: for folderA with x_501.asc and folderB with  *)
(* y_501.asc, each file holding one data row, the returned section map has *)
(* the key 501 with a list of 2 records, and the workbook has exactly one  *)
(* sheet whose name starts with '501 '.                                    *)
(***************************************************************************)
C17_TwoFolderScenario ==
    folderContents \in TwoFolderScenarios =>
        /\ Returned =>
              /\ parseError = ""
              /\ MapKeys(sectionMap) = <<"501">>
              /\ Len(MapGet(sectionMap, "501")) = 2
        /\ pc = "done" =>
              /\ outcome.kind = "blob"
              /\ Cardinality(sheetsStarting(outcome.sheets, "501 ")) = 1
              /\ Len(outcome.sheets) = 1

\* the run on the scenario has ended with its workbook
C17_Witness ==
    /\ folderContents \in TwoFolderScenarios
    /\ pc = "done"
    /\ Len(recordsOf(sectionMap, "501")) = 2
    /\ SheetNames(outcome.sheets) = <<"501 Datos generales">>

\* the file has data rows, no code in its name and no section column
Unusable(filename, content) ==
    LET rows == dataRowsOf(content)
    IN  /\ Len(rows) > 0
        /\ filenameSectionOf(filename) = ""
        /\ findSectionHeader(ObjKeys(rows[1])) = ""

(***************************************************************************)
(* C18.  A file with no section column and no code in its name gives no    *)
(* record and no section code: the step that processes it leaves the       *)
(* section map as it was and the loop goes on with the next file; and when *)
(* another file of the batch gives a section, the parser returns the       *)
(* sections with no error.                                                 *)
(***************************************************************************)
C18_UnusableFile ==
    /\ [][ ( /\ pc = "files"
             /\ fileIdx <= Len(allFileContents)
             /\ Unusable(allFileContents[fileIdx][1], allFileContents[fileIdx][2]) )
           => /\ sectionMap' = sectionMap
              /\ pc' = "files"
              /\ fileIdx' = fileIdx + 1
              /\ parseError' = ""
         ]_vars
    /\ []( ( /\ Returned
             /\ \E i \in 1..Len(allFileContents) :
                   Unusable(allFileContents[i][1], allFileContents[i][2])
             /\ resolvedPositions(resolvedRowsOfFolders(folderContents, 1)) # {} )
           => /\ parseError = ""
              /\ Len(sectionMap) > 0 )

\* the unusable file nosec.asc came first and the files of the second
\* folder after it gave their rows
C18_Witness ==
    /\ Returned
    /\ Len(folderContents) = 2
    /\ folderContents[1][2] = FolderCases[3]
    /\ folderContents[2][2] = FolderCases[1]
    /\ Unusable(allFileContents[3][1], allFileContents[3][2])
    /\ parseError = ""
    /\ Len(recordsOf(sectionMap, "501")) = 4

(***************************************************************************)
(* C19.  Column schema by the first record: the sheet of every section     *)
(* with a record has as header row the keys of the section's first record, *)
(* No_Pedimento first and the columns of the file after it; each data row  *)
(* gives per header column the record's value, or the empty string when    *)
(* the record lacks the key.                                               *)
(***************************************************************************)
C19_ColumnSchema ==
    \A i \in 1..Len(workbook) :
        LET rows == recordsOf(sectionMap, orderedSections[i])
            data == workbook[i].data
        IN  (SheetBuilt(i) /\ Len(rows) > 0) =>
                /\ Len(data) = Len(rows) + 1
                /\ data[1] = ObjKeys(rows[1])
                /\ data[1][1] = "No_Pedimento"
                /\ \A r \in 1..Len(rows) :
                      data[r + 1] = [c \in 1..Len(data[1]) |->
                                        IF ObjHas(rows[r], data[1][c])
                                        THEN ObjGet(rows[r], data[1][c]) ELSE ""]

\* a line without the pipe that ends it, be the line end LF or CRLF
withoutTrailingPipe(line) ==
    IF endsWith(line, "|\r") THEN SubSeq(line, 1, Len(line) - 2) \o "\r"
    ELSE IF endsWith(line, "|") THEN SubSeq(line, 1, Len(line) - 1)
    ELSE line

\* the content with every line normalized
everyLineNormalized(content) ==
    LET lines == split(content, "\n")
    IN  join([i \in 1..Len(lines) |-> withoutTrailingPipe(lines[i])], "\n")

(***************************************************************************)
(* C20.  Trailing-pipe normalization: the rows the parser reads from a     *)
(* file are the rows of the content with the pipe that ends a line taken   *)
(* off every line, for LF and for CRLF line ends; a trailing separator     *)
(* gives no column with an empty name and no extra field.                  *)
(***************************************************************************)
C20_TrailingPipe ==
    Returned =>
        \A i \in 1..Len(allFileContents) :
            LET content == allFileContents[i][2]
                rows == dataRowsOf(content)
            IN  /\ rows = (IF trim(content) = "" THEN <<>>
                           ELSE PapaParse(everyLineNormalized(content)))
                /\ \A r \in 1..Len(rows) : ~ObjHas(rows[r], "")

RECURSIVE readableOf(_)
\* the entries whose read succeeds
readableOf(entries) ==
    IF Len(entries) = 0 THEN <<>>
    ELSE (IF entries[1].readable THEN <<entries[1]>> ELSE <<>>)
            \o readableOf(Tail(entries))

RECURSIVE allAscFilesOf(_)
\* the .asc files of a ZIP: its own and those of its nested ZIPs
allAscFilesOf(entries) ==
    IF Len(entries) = 0 THEN <<>>
    ELSE (IF entries[1].dir \/ ~entries[1].readable THEN <<>>
          ELSE IF endsWith(toLowerCase(entries[1].path), ".asc") THEN <<entries[1]>>
          ELSE IF endsWith(toLowerCase(entries[1].path), ".zip")
               THEN readableOf(ascFilesOf(entries[1].files))
          ELSE <<>>)
         \o allAscFilesOf(Tail(entries))

(***************************************************************************)
(* C16.  Same-named files in different folders are all kept: the Map that  *)
(* extractAscFromZip returns has an entry for each .asc file of the ZIP    *)
(* and of its nested ZIPs, with the file's name and content; none          *)
(* overwrites another, and all of them reach the parser.                   *)
(***************************************************************************)
C16_SameNamedFilesKept ==
    LET ascFiles == allAscFilesOf(zipFile)
    IN  /\ (pc = "extracted" /\ ~onErrorCalled) =>
              /\ Len(zipFileContents) >= Len(ascFiles)
              /\ \A i \in 1..Len(ascFiles) :
                    \E k \in 1..Len(zipFileContents) :
                        /\ endsWith(zipFileContents[k][1],
                                    "/" \o simpleFilenameOf(ascFiles[i].path))
                        /\ zipFileContents[k][2] = ascFiles[i].content
        /\ pc = "files" => Len(allFileContents) >= Len(ascFiles)

\* the values a row holds under the three date columns, in their order
dateValuesOf(row) ==
    << ObjGet(row, "FechaPagoReal"), ObjGet(row, "fechaPagoReal"),
       ObjGet(row, "FECHA_PAGO_REAL") >>

\* the first of the values that satisfies the length test, "" when none does
firstOfLength(values, n) ==
    IF \E i \in 1..Len(values) : values[i] # "" /\ Len(values[i]) >= n
    THEN values[CHOOSE i \in 1..Len(values) :
                    /\ values[i] # "" /\ Len(values[i]) >= n
                    /\ \A j \in 1..(i - 1) : ~(values[j] # "" /\ Len(values[j]) >= n)]
    ELSE ""

\* the characters at the 0-indexed offsets 2 and 3, "" for a value shorter
\* than 4 characters
offsets2and3(value) == IF Len(value) >= 4 THEN SubSeq(value, 3, 4) ELSE ""

\* the identifier of a row whose year part is the one given
identifierWithYear(row, year) ==
    hyphenated(<< year, firstField(row, seccionFields),
                  firstField(row, patenteFields), firstField(row, pedimentoFields) >>)

(***************************************************************************)
(* C21 as the spec states it.  When a row has, under one of the three date *)
(* columns, a value of at least 4 characters, the identifier's first part  *)
(* is the characters at offsets 2 and 3 of that value; else the identifier *)
(* has no year part.                                                       *)
(***************************************************************************)
C21_YearFragment_AsStated ==
    Returned =>
        LET pairs == resolvedRowsOfFolders(folderContents, 1)
        IN  \A k \in resolvedPositions(pairs) :
                LET row == pairs[k][2]
                IN  ~ObjHas(row, "No_Pedimento") =>
                        ObjGet(recordAt(sectionMap, pairs, k), "No_Pedimento")
                            = identifierWithYear(row,
                                  offsets2and3(firstOfLength(dateValuesOf(row), 4)))

(***************************************************************************)
(* C21.  Year fragment: the date value of a row is the first non-empty     *)
(* value among FechaPagoReal, fechaPagoReal and FECHA_PAGO_REAL, in that   *)
(* order.  When it has at least 4 characters, the identifier's first part  *)
(* is its characters at offsets 2 and 3, with no date validation; when     *)
(* there is none or it is shorter, the identifier has no year part.        *)
(***************************************************************************)
C21_YearFragment ==
    Returned =>
        LET pairs == resolvedRowsOfFolders(folderContents, 1)
        IN  \A k \in resolvedPositions(pairs) :
                LET row == pairs[k][2]
                IN  ~ObjHas(row, "No_Pedimento") =>
                        ObjGet(recordAt(sectionMap, pairs, k), "No_Pedimento")
                            = identifierWithYear(row,
                                  offsets2and3(firstOfLength(dateValuesOf(row), 1)))

\* the rows of the file with two date columns are stored: the year of the
\* first column, the year of the third when the first is empty, a fragment
\* of a value that is no date, and no year for a short value
C21_Witness ==
    /\ Returned
    /\ folderContents \in YearFragmentScenarios
    /\ [i \in 1..5 |-> ObjGet(recordsOf(sectionMap, "501")[i], "No_Pedimento")]
          = <<"1", "23-2", "22-3", "cd-4", "5">>

\* the section-code column of a file's rows, "" when the file has none
sectionColumnOf(rows) ==
    IF Len(rows) = 0 THEN "" ELSE findSectionHeader(ObjKeys(rows[1]))

RECURSIVE storedRowsOf(_, _, _)
\* the records of the rows whose value in the column is the code c, in row
\* order
storedRowsOf(rows, column, c) ==
    IF Len(rows) = 0 THEN <<>>
    ELSE (IF ObjGet(rows[1], column) = c THEN <<enhancedRow(rows[1])>> ELSE <<>>)
            \o storedRowsOf(Tail(rows), column, c)

\* the file ProcessFile is about to read is resolved by its section column
ResolvedByColumn ==
    /\ pc = "files"
    /\ fileIdx <= Len(allFileContents)
    /\ filenameSectionOf(allFileContents[fileIdx][1]) = ""
    /\ sectionColumnOf(dataRowsOf(allFileContents[fileIdx][2])) # ""

IsPrefixOf(p, s) == Len(p) <= Len(s) /\ SubSeq(s, 1, Len(p)) = p

(***************************************************************************)
(* C23.  The SectionMap grows monotonically while parseAscFiles processes  *)
(* its files: it is empty before the first file, and in every step the     *)
(* codes it had stay, in their order, each with its records unchanged at   *)
(* the beginning of its list; a step only adds codes after the others or   *)
(* records at the end of a list.                                           *)
(***************************************************************************)
C23_MonotonicGrowth ==
    /\ []((pc = "start" \/ (pc = "files" /\ fileIdx = 1)) => sectionMap = <<>>)
    /\ [][ /\ IsPrefixOf(MapKeys(sectionMap), MapKeys(sectionMap'))
           /\ \A i \in 1..Len(sectionMap) :
                 IsPrefixOf(sectionMap[i][2], sectionMap'[i][2])
         ]_vars

\* two files have been read and the second one's rows stand behind the
\* first one's in the list of one code
C23_Witness ==
    /\ pc = "files"
    /\ fileIdx = 3
    /\ Len(sectionMap) = 1
    /\ Len(dataRowsOf(allFileContents[1][2])) > 0
    /\ Len(dataRowsOf(allFileContents[2][2])) > 0
    /\ Len(sectionMap[1][2]) = Len(dataRowsOf(allFileContents[1][2]))
                                  + Len(dataRowsOf(allFileContents[2][2]))

\* the worksheet name of a section code
sheetNameOf(sectionCode) == sanitizeSheetName(getFormattedSheetName(sectionCode))

(***************************************************************************)
(* C28.  Worksheet names are unique: two distinct codes of the section map *)
(* never get the same sanitized worksheet name, and appending the sheet of *)
(* a section never fails because a sheet of that name already exists.      *)
(***************************************************************************)
C28_UniqueSheetNames ==
    /\ \A i, j \in 1..Len(sectionMap) :
          i # j => sheetNameOf(sectionMap[i][1]) # sheetNameOf(sectionMap[j][1])
    /\ (pc = "sheets" /\ sheetIdx <= Len(orderedSections)) =>
          ~includes(SheetNames(workbook), sheetNameOf(orderedSections[sheetIdx]))

\* extractAscFromZip is running: it has not returned yet
Extracting == pc \in {"zip", "mainReads", "nestedZips"}

\* the key under which a file of a folder is returned
keyOf(folderName, path) == folderName \o "/" \o simpleFilenameOf(path)

\* the keys of the files that the tasks of a ZIP produce: the readable .asc
\* files of the root and of the nested ZIPs that can be loaded
producedKeysOf(entries) ==
    LET main == readableOf(ascFilesOf(entries))
        nestedZips == nestedZipFilesOf(entries)
    IN  {keyOf("main", main[i].path) : i \in 1..Len(main)}
        \cup UNION { LET files == readableOf(ascFilesOf(nestedZips[n].files))
                     IN  {keyOf(nestedFolderNameOf(nestedZips[n].path, n - 1),
                                files[i].path) : i \in 1..Len(files)}
                     : n \in {m \in 1..Len(nestedZips) : nestedZips[m].readable} }

(***************************************************************************)
(* C26.  Join before aggregation: when extractAscFromZip has returned, no  *)
(* read and no nested-ZIP task is still pending; the Map it returns after  *)
(* a successful load has a key for every file a task produced, whatever    *)
(* other tasks failed; and from the return on no step writes into the      *)
(* folders' file maps or into the returned Map.                            *)
(***************************************************************************)
C26_JoinBeforeAggregation ==
    /\ [](~Extracting => pendingReads = {})
    /\ []((pc = "extracted" /\ error # ExtractionError) =>
             \A key \in producedKeysOf(zipFile) : MapHas(zipFileContents, key))
    /\ [][ (~Extracting /\ pc # "idle") =>
              UNCHANGED <<mainFolderFiles, extractedFolders, zipFileContents>> ]_vars

\* extraction has returned for the ZIP in which a read of the root, a nested
\* ZIP and a read inside a nested ZIP fail: the files of the other tasks are
\* there
C26_Witness ==
    /\ pc = "extracted"
    /\ \E i \in 1..Len(zipFile) : ~zipFile[i].readable
    /\ MapKeys(zipFileContents) \in {<<"main/a_501.asc", "lote/y_504.asc">>,
                                     <<"lote/y_504.asc", "main/a_501.asc">>}

RECURSIVE pushNestedInOrder(_, _, _)
\* the folders of the nested ZIPs from the n-th on, pushed in listing order
pushNestedInOrder(folders, nestedZips, n) ==
    IF n > Len(nestedZips) THEN folders
    ELSE pushNestedInOrder(
             IF nestedZips[n].readable
             THEN pushFolder(folders, nestedFolderNameOf(nestedZips[n].path, n - 1),
                             setSimple(<<>>, ascFilesOf(nestedZips[n].files)))
             ELSE folders,
             nestedZips, n + 1)

\* the Map returned when every task completes in the order it was started
resultInStartOrder(entries) ==
    LET main == pushFolder(<<>>, "main", setSimple(<<>>, ascFilesOf(entries)))
        folders == pushNestedInOrder(main, nestedZipFilesOf(entries), 1)
    IN  combineFolders(IF Len(folders) = 0 THEN textFilesFallback(entries)
                       ELSE folders)

(***************************************************************************)
(* C27.  The Map extractAscFromZip returns for a ZIP that loads (its keys, *)
(* the content under each key and the insertion order of its entries) is   *)
(* the same for every completion order of the reads and the nested-ZIP     *)
(* tasks: it is the Map of the run in which they complete in start order.  *)
(***************************************************************************)
C27_CompletionOrderIndependent ==
    (pc = "extracted" /\ error # ExtractionError) =>
        zipFileContents = resultInStartOrder(zipFile)

\* generateExcel has been invoked in this run
GenerateInvoked == pc \in {"sheets", "generated"} \/ outcome.kind # "none"

(***************************************************************************)
(* C24.  No workbook from empty data: generateExcel and downloadExcel are  *)
(* invoked only after the parser returned no error and a SectionMap with   *)
(* at least one code; a run in which extraction returned no file, the      *)
(* parser returned an error or the SectionMap is empty ends with no        *)
(* workbook generated and no download started.                             *)
(***************************************************************************)
C24_NoWorkbookFromEmptyData ==
    /\ (GenerateInvoked \/ downloadStarted) =>
          /\ Len(zipFileContents) > 0
          /\ fileIdx > Len(allFileContents)
          /\ parseError = ""
          /\ Len(sectionMap) >= 1
    /\ (pc = "done" /\ (Len(zipFileContents) = 0 \/ parseError # "" \/ Len(sectionMap) = 0)) =>
          /\ ~GenerateInvoked
          /\ ~downloadStarted
          /\ workbook = <<>>

\* a run has ended at the parser's error: files were extracted, none of
\* them gave a section, and nothing was generated or downloaded
C24_Witness ==
    /\ pc = "done"
    /\ Len(zipFileContents) > 0
    /\ parseError = NoValidData
    /\ error = NoValidData
    /\ outcome = NoOutcome
    /\ ~downloadStarted

(***************************************************************************)
(* C29.  Every invocation of handleFileAccepted eventually ends with       *)
(* isProcessing = false, on every path; once the run has ended,            *)
(* isProcessing stays false.                                               *)
(***************************************************************************)
C29_ProcessingEnds ==
    /\ isProcessing ~> (pc = "done" /\ ~isProcessing)
    /\ [](pc = "done" => ~isProcessing)

\* a run that was processing has ended in the catch block, after
\* generateExcel had returned its blob
C29_Witness ==
    /\ pc = "done"
    /\ ~isProcessing
    /\ error = ProcessingError
    /\ outcome.kind = "blob"
    /\ ~downloadStarted

(***************************************************************************)
(* C30.  At the end of every run of handleFileAccepted, error and          *)
(* successMessage are never both set: the success message is set only when *)
(* extraction did not call onError, the parser returned no error and the   *)
(* download was started; a run in which extractAscFromZip called onError   *)
(* ends with an error shown and no success message.                        *)
(***************************************************************************)
C30_ErrorOrSuccess ==
    pc = "done" =>
        /\ ~(error # "" /\ successMessage # "")
        /\ successMessage # "" =>
              /\ ~onErrorCalled
              /\ parseError = ""
              /\ downloadStarted
        /\ onErrorCalled => (error # "" /\ successMessage = "")

\* a run in which extractAscFromZip called onError has ended
C30_Witness ==
    /\ pc = "done"
    /\ onErrorCalled
    /\ error = NoFilesExtracted
    /\ successMessage = ""

(***************************************************************************)
(* generateExcel called on its own, with any SectionMap the parser can     *)
(* build and with the empty one                                            *)
(***************************************************************************)
SectionMapCases == {secondRun(folders) : folders \in FolderMaps} \cup {<<>>}

ExcelInit ==
    /\ sectionMap \in SectionMapCases
    /\ pc = "parsed"
    /\ folderContents = <<>>
    /\ allFileContents = <<>>
    /\ fileIdx = 1
    /\ parseError = ""
    /\ orderedSections = <<>>
    /\ sheetIdx = 1
    /\ workbook = <<>>
    /\ outcome = NoOutcome
    /\ zipFile = <<>>
    /\ pendingReads = {}
    /\ mainFolderFiles = <<>>
    /\ extractedFolders = <<>>
    /\ zipFileContents = <<>>
    /\ isProcessing = TRUE
    /\ error = ""
    /\ successMessage = ""
    /\ downloadStarted = FALSE
    /\ onErrorCalled = FALSE

ExcelNext ==
    \/ GenerateExcel
    \/ AppendSheet
    \/ AppendErrorSheet
    \/ SectionCatchThrows
    \/ WriteWorkbook

ExcelSpec == ExcelInit /\ [][ExcelNext]_vars

\* the step in which generateExcel returns after a failure outside the
\* per-section handling: the loop is given up, or the write faults
FailsOutsideSections ==
    /\ pc = "sheets"
    /\ pc' = "generated"
    /\ sheetIdx <= Len(orderedSections) \/ writeThrows(workbook)

(***************************************************************************)
(* C25.  Whole-workbook failure: whenever the construction or the write of *)
(* the workbook fails outside the per-section handling, generateExcel      *)
(* still returns a blob, a workbook with exactly one sheet named 'Error'   *)
(* that carries the failure text; generateExcel returns a blob on every    *)
(* invocation.                                                             *)
(***************************************************************************)
C25_WholeWorkbookFailure ==
    /\ [](pc = "generated" => (outcome.kind = "blob" /\ Len(outcome.sheets) >= 1))
    /\ [][ FailsOutsideSections =>
             /\ outcome'.kind = "blob"
             /\ SheetNames(outcome'.sheets) = <<"Error">>
             /\ Len(outcome'.sheets[1].data) = 2
             /\ outcome'.sheets[1].data[1] = <<"Error creating Excel file">>
             /\ outcome'.sheets[1].data[2]
                   = IF sheetIdx <= Len(orderedSections)
                     THEN <<alreadyExists(sanitizeSheetName(
                                "Error_" \o orderedSections[sheetIdx]))>>
                     ELSE <<"Error: Workbook is empty">>
         ]_vars

\* generateExcel was called with the empty SectionMap: the write of the
\* workbook without sheets faulted and the 'Error' workbook came back
C25_Witness ==
    /\ pc = "generated"
    /\ sectionMap = <<>>
    /\ workbook = <<>>
    /\ SheetNames(outcome.sheets) = <<"Error">>
    /\ outcome.sheets[1].data[2] = <<"Error: Workbook is empty">>

=============================================================================
